---------------------------- MODULE Spec2Model ----------------------------
(***************************************************************************)
(* Bidirectional reconciliation of Apple Reminders (the local store) and   *)
(* Google Tasks (the remote store): the Cloud Function request handler,    *)
(* its Firestore mapping store and Google Tasks client, and the macOS      *)
(* command line driver that runs one pass per invocation.                  *)
(*                                                                         *)
(*   Spec         the driver running passes against the handler, with the  *)
(*                users of both stores acting between passes and calls     *)
(*                failing at the places a call can fail                    *)
(*   SpecHandler  arbitrary authenticated requests sent to the handler     *)
(***************************************************************************)
EXTENDS Integers, Sequences, FiniteSets, TLC

(* ------------------------------ bounds --------------------------------- *)

\* reminders ever created in the local store (by its user or by an import)
MaxReminders == 2
\* tasks ever created in the remote store (by its user or by a push)
MaxTasks == 2
\* events of the environment: changes the two users make to their stores, calls
\* that fail, and requests of clients other than the driver
MaxEvents == 3
\* passes the driver runs
MaxPasses == 2
\* requests without a uid
MaxRandom == 1

(* ----------------------------- constants ------------------------------- *)

\* crypto.randomUUID(): identifiers no local store hands out
UuidBase == 100

NoUid == 0
NoTask == 0
NoList == 0

DefaultListName == "Reminders"
\* the calendars of the local store; the first is defaultCalendarForNewReminders
Calendars == <<"Reminders", "Work">>

WEBHOOK_SECRET == "test-secret"

(* ------------------------------- state --------------------------------- *)

VARIABLES
  db,            \* Firestore collection synced-reminders: icloudUid -> document
  lists,         \* Google task lists: list id (index) -> title
  tasks,         \* Google tasks: task id -> [list, title, status, deleted]
  nextTask,      \* the id the next inserted task gets
  nextRandom,    \* random uuids handed out so far
  cachedSecrets, \* whether this instance holds the loaded secrets
  reminders,     \* EventKit reminders: calendarItemIdentifier -> [title, list, completed]
  nextUid,       \* the identifier the next saved reminder gets
  syncStateFile, \* ~/.sync-tasks-state.json: keys of syncedReminders
  state,         \* main's var state: keys of syncedReminders
  forceSync,     \* --force
  resetSync,     \* --reset
  pc,            \* the driver's position in main
  queue,         \* the items the current step of main still has to process
  importedUIDs,  \* main's var importedUIDs
  last,          \* the last request the handler served and its response
  pass,          \* passes started
  events,        \* changes made by the users and calls that failed so far
  hist,          \* what the current pass saw and did (for the properties)
  inflight,      \* the create requests being handled concurrently, each at an await
  envSecret      \* process.env.WEBHOOK_SECRET of the function ("": unset)

serverVars == <<db, lists, tasks, nextTask, nextRandom>>
localVars  == <<reminders, nextUid>>
driverVars == <<syncStateFile, state, forceSync, resetSync, pc, queue, importedUIDs, pass,
               hist>>
vars == <<db, lists, tasks, nextTask, nextRandom, cachedSecrets, reminders, nextUid,
          syncStateFile, state, forceSync, resetSync, pc, queue, importedUIDs, last, pass,
          events, hist, inflight, envSecret>>

(* ------------------------------ helpers -------------------------------- *)

Put(f, k, v) == [x \in DOMAIN f \cup {k} |-> IF x = k THEN v ELSE f[x]]

Remove(f, k) == [x \in DOMAIN f \ {k} |-> f[x]]

Min(S) == CHOOSE x \in S : \A y \in S : x <= y

RECURSIVE SortedSeq(_)
\* the elements of a set of integers in ascending order
SortedSeq(S) == IF S = {} THEN <<>> ELSE <<Min(S)>> \o SortedSeq(S \ {Min(S)})

Range(s) == {s[i] : i \in DOMAIN s}

(* ------------------------- Google Tasks client ------------------------- *)

\* tasksApi.tasks.get succeeds
TaskAt(listId, taskId) == taskId \in DOMAIN tasks /\ tasks[taskId].list = listId

taskExistsInList(listId, taskId, getFails) == ~getFails /\ TaskAt(listId, taskId)

\* a lookup that never finds the list and always inserts one
findOrCreateTaskListAlwaysCreates(name) ==
  [lists |-> Append(lists, name), id |-> Len(lists) + 1,
   ops |-> {"tasklists.list", "tasklists.insert"}]

\* a lookup that ignores the case of the titles
findOrCreateTaskListAnyCase(name) ==
  LET Lower(t) == IF t = "Work" THEN "work" ELSE t
      existing == {l \in DOMAIN lists : Lower(lists[l]) = Lower(name)}
  IN  IF existing # {} THEN [lists |-> lists, id |-> Min(existing), ops |-> {"tasklists.list"}]
      ELSE [lists |-> Append(lists, name), id |-> Len(lists) + 1,
            ops |-> {"tasklists.list", "tasklists.insert"}]

findOrCreateTaskList(name) ==
  LET existing == {l \in DOMAIN lists : lists[l] = name}
  IN  IF existing # {}
      THEN [lists |-> lists, id |-> Min(existing), ops |-> {"tasklists.list"}]
      ELSE [lists |-> Append(lists, name), id |-> Len(lists) + 1,
            ops |-> {"tasklists.list", "tasklists.insert"}]

\* an insert that answers with the id of the first task instead of a new one
createTaskInListFirstId(listId, input) ==
  [tasks |-> Put(tasks, 1,
                 [list |-> listId, title |-> input.title, deleted |-> FALSE,
                  status |-> IF input.completed THEN "completed" ELSE "needsAction"]),
   id |-> 1]

createTaskInList(listId, input) ==
  [tasks |-> Put(tasks, nextTask,
                 [list |-> listId, title |-> input.title, deleted |-> FALSE,
                  status |-> IF input.completed THEN "completed" ELSE "needsAction"]),
   id |-> nextTask]

\* a patch of title, notes and due that also sends status needsAction
updateTaskInListTitleReopens(listId, taskId, title) ==
  [tasks EXCEPT ![taskId].title = title, ![taskId].status = "needsAction"]

\* the patch of title, notes and due (the fields a push sets)
updateTaskInListTitle(listId, taskId, title) ==
  [tasks EXCEPT ![taskId].title = title]

\* a patch of completed that always sends "completed"
updateTaskInListCompletedOnly(listId, taskId, completed) ==
  [tasks EXCEPT ![taskId].status = "completed"]

\* the patch of completed
updateTaskInListCompleted(listId, taskId, completed) ==
  [tasks EXCEPT ![taskId].status = IF completed THEN "completed" ELSE "needsAction"]

listTasksInList(listId) == SortedSeq({t \in DOMAIN tasks : tasks[t].list = listId})

(* ------------------------------ Firestore ------------------------------ *)

getSyncedItem(icloudUid) == icloudUid \in DOMAIN db

getAllSyncedItems == SortedSeq(DOMAIN db)

\* a write that merges into an existing document and keeps its task reference
saveSyncedItemKeepsTask(d, item) ==
  Put(d, item.icloudUid,
      [title |-> item.title, completed |-> item.completed,
       googleTaskId |-> IF item.icloudUid \in DOMAIN d THEN d[item.icloudUid].googleTaskId
                        ELSE item.googleTaskId,
       googleListId |-> item.googleListId])

\* a write that creates the document and leaves an existing one alone
saveSyncedItemIfAbsent(d, item) ==
  IF item.icloudUid \in DOMAIN d THEN d
  ELSE Put(d, item.icloudUid,
           [title |-> item.title, completed |-> item.completed,
            googleTaskId |-> item.googleTaskId, googleListId |-> item.googleListId])

saveSyncedItem(d, item) ==
  Put(d, item.icloudUid,
      [title |-> item.title, completed |-> item.completed, googleTaskId |-> item.googleTaskId,
       googleListId |-> item.googleListId])

\* an update that leaves the document as it is
updateSyncedItemNoop(d, icloudUid, completed) == d

\* an update that deletes the document (deleteSyncedItem) instead of patching it
updateSyncedItemDeletes(d, icloudUid, completed) == Remove(d, icloudUid)

updateSyncedItem(d, icloudUid, completed) == [d EXCEPT ![icloudUid].completed = completed]


(* ------------------------------- faults -------------------------------- *)

\* a call that fails: the at-th call of this name made by the handler throws (or, for
\* "response", the response never reaches the client)
NoFault == [call |-> "none", at |-> 0]

Fault(c) == [call |-> c, at |-> 1]

(* ------------------------------ responses ------------------------------ *)

Now == "now"

\* a body without fields
NoBody == [x \in {} |-> x]

\* what a handler function leaves behind: the stores, the body it returned or the
\* error it threw, the calls it made, and whether the fault was met
Returned(d, ls, ts, nt, nr, body, ops) ==
  [db |-> d, lists |-> ls, tasks |-> ts, nextTask |-> nt, nextRandom |-> nr, ops |-> ops,
   body |-> body, thrown |-> FALSE]

Thrown(d, ls, ts, nt, nr, error, ops) ==
  [db |-> d, lists |-> ls, tasks |-> ts, nextTask |-> nt, nextRandom |-> nr, ops |-> ops,
   body |-> [error |-> error], thrown |-> TRUE]

(* --------------------------- handler functions ------------------------- *)

\* loadSecrets caching its result whether or not the load succeeded
CachedOnAttempt(ops, f) == cachedSecrets \/ "loadSecrets" \in ops

\* loadSecrets throws: nothing is cached and one of the secrets, or the project
\* id, is unavailable
loadSecretsFails(f) == ~cachedSecrets /\ f.call = "loadSecrets"

\* cachedSecrets after a request that made the calls ops under fault f
Cached(ops, f) == cachedSecrets \/ ("loadSecrets" \in ops /\ ~loadSecretsFails(f))

\* a getTask that always answers null
getTaskFoundNever(listId, taskId) == FALSE

\* googleClient.getTask(listId, taskId): the task, or null when it cannot be found
getTaskFound(listId, taskId) == TaskAt(listId, taskId)

RECURSIVE statusLoop(_, _, _, _, _)
\* the for loop of getGoogleStatusChanges over the snapshot syncedItems
statusLoop(uids, d, changes, n, f) ==
  IF uids = <<>> THEN [db |-> d, thrown |-> FALSE, changes |-> changes]
  ELSE
    LET uid == Head(uids)
        item == db[uid]
    IN  IF ~getTaskFound(item.googleListId, item.googleTaskId)
        THEN statusLoop(Tail(uids), d, changes, n, f)
        ELSE
          LET googleCompleted == tasks[item.googleTaskId].status = "completed"
              firestoreCompleted == item.completed
          IN  IF googleCompleted # firestoreCompleted
              THEN IF f.call = "updateSyncedItem" /\ f.at = n + 1
                   THEN [db |-> d, thrown |-> TRUE, changes |-> changes]
                   ELSE statusLoop(Tail(uids), updateSyncedItem(d, uid, googleCompleted),
                                   Append(changes, [title |-> item.title,
                                                    completed |-> googleCompleted, uid |-> uid]),
                                   n + 1, f)
              ELSE statusLoop(Tail(uids), d, changes, n, f)

getGoogleStatusChanges(f) ==
  IF loadSecretsFails(f)
  THEN Thrown(db, lists, tasks, nextTask, nextRandom, "secrets unavailable", {"loadSecrets"})
  ELSE
    LET r == statusLoop(getAllSyncedItems, db, <<>>, 0, f)
        ops == {"loadSecrets", "getAllSyncedItems"}
                 \cup (IF db = << >> THEN {} ELSE {"getTask"})
                 \cup (IF r.db # db \/ r.thrown THEN {"updateSyncedItem"} ELSE {})
    IN  IF r.thrown
        THEN Thrown(r.db, lists, tasks, nextTask, nextRandom, "update failed", ops)
        ELSE Returned(r.db, lists, tasks, nextTask, nextRandom,
                      [changes |-> r.changes, success |-> TRUE, timestamp |-> Now], ops)

\* an enumeration that does not skip the tasks flagged deleted
newTasksOfListDeletedToo(listId, syncedGoogleTaskIds) ==
  LET ids == SelectSeq(listTasksInList(listId),
                       LAMBDA t : tasks[t].title # "" /\ t \notin syncedGoogleTaskIds)
  IN  [i \in DOMAIN ids |->
         [title |-> tasks[ids[i]].title, completed |-> tasks[ids[i]].status = "completed",
          googleTaskId |-> ids[i], googleListId |-> listId, listName |-> lists[listId]]]

\* the tasks of one list that getNewTasks reports
newTasksOfList(listId, syncedGoogleTaskIds) ==
  LET ids == SelectSeq(listTasksInList(listId),
                       LAMBDA t : /\ tasks[t].title # ""
                                  /\ t \notin syncedGoogleTaskIds
                                  /\ ~tasks[t].deleted)
  IN  [i \in DOMAIN ids |->
         [title |-> tasks[ids[i]].title, completed |-> tasks[ids[i]].status = "completed",
          googleTaskId |-> ids[i], googleListId |-> listId, listName |-> lists[listId]]]

\* a loop that looks at the first task list only
newTasksLoopFirstListOnly(l, syncedGoogleTaskIds) ==
  IF l > 1 \/ l > Len(lists) THEN <<>> ELSE newTasksOfList(l, syncedGoogleTaskIds)

RECURSIVE newTasksLoop(_, _)
\* the for loop of getNewTasks over the task lists, from list id l on
newTasksLoop(l, syncedGoogleTaskIds) ==
  IF l > Len(lists) THEN <<>>
  ELSE (IF lists[l] = "" THEN <<>> ELSE newTasksOfList(l, syncedGoogleTaskIds))
         \o newTasksLoop(l + 1, syncedGoogleTaskIds)

\* the uids of the documents taken for the task ids they hold
syncedGoogleTaskIdsByUid(syncedItems) == DOMAIN syncedItems

\* the set of Google task ids that are already synced
syncedGoogleTaskIdsOf(syncedItems) == {syncedItems[u].googleTaskId : u \in DOMAIN syncedItems}

getNewTasks(f) ==
  IF loadSecretsFails(f)
  THEN Thrown(db, lists, tasks, nextTask, nextRandom, "secrets unavailable", {"loadSecrets"})
  ELSE IF f.call = "getAllSyncedItems"
  THEN Thrown(db, lists, tasks, nextTask, nextRandom, "call failed",
              {"loadSecrets", "getAllSyncedItems"})
  ELSE IF f.call = "tasklists.list"
  THEN Thrown(db, lists, tasks, nextTask, nextRandom, "call failed",
              {"loadSecrets", "getAllSyncedItems", "tasklists.list"})
  ELSE IF f.call = "tasks.list"
  THEN Thrown(db, lists, tasks, nextTask, nextRandom, "call failed",
              {"loadSecrets", "getAllSyncedItems", "tasklists.list", "tasks.list"})
  ELSE
    LET syncedGoogleTaskIds == syncedGoogleTaskIdsOf(db)
    IN  Returned(db, lists, tasks, nextTask, nextRandom,
                 [tasks |-> newTasksLoop(1, syncedGoogleTaskIds), success |-> TRUE,
                  timestamp |-> Now],
                 {"loadSecrets", "getAllSyncedItems", "tasklists.list"}
                   \cup (IF lists = <<>> THEN {} ELSE {"tasks.list"}))

registerSyncedTask(payload, f) ==
  IF f.call = "saveSyncedItem"
  THEN Thrown(db, lists, tasks, nextTask, nextRandom, "save failed", {"saveSyncedItem"})
  ELSE Returned(saveSyncedItem(db, payload), lists, tasks, nextTask, nextRandom,
                [taskId |-> payload.googleTaskId, success |-> TRUE, timestamp |-> Now,
                 message |-> "Task registered successfully"],
                {"saveSyncedItem"})

getSyncedItems(f) ==
  IF f.call = "getAllSyncedItems"
  THEN Thrown(db, lists, tasks, nextTask, nextRandom, "read failed", {"getAllSyncedItems"})
  ELSE
    LET uids == getAllSyncedItems
    IN  Returned(db, lists, tasks, nextTask, nextRandom,
                 [success |-> TRUE, timestamp |-> Now,
                  items |-> [i \in DOMAIN uids |->
                               [title |-> db[uids[i]].title,
                                completed |-> db[uids[i]].completed, icloudUid |-> uids[i],
                                googleTaskId |-> db[uids[i]].googleTaskId,
                                googleListId |-> db[uids[i]].googleListId]]],
                 {"getAllSyncedItems"})

updateTaskStatus(payload, f) ==
  LET uid == payload.icloudUid
      action == IF payload.completed THEN "completed" ELSE "incomplete"
      syncedItem == db[uid]
      patched == updateTaskInListCompleted(syncedItem.googleListId, syncedItem.googleTaskId,
                                           payload.completed)
  IN  IF f.call = "getSyncedItem"
      THEN Thrown(db, lists, tasks, nextTask, nextRandom, "read failed", {"getSyncedItem"})
      ELSE IF ~getSyncedItem(uid)
      THEN Returned(db, lists, tasks, nextTask, nextRandom,
                    [success |-> FALSE, timestamp |-> Now, message |-> "Synced item not found"],
                    {"getSyncedItem"})
      ELSE IF loadSecretsFails(f)
      THEN Thrown(db, lists, tasks, nextTask, nextRandom, "secrets unavailable",
                  {"getSyncedItem", "loadSecrets"})
      ELSE IF f.call = "tasks.patch" \/ ~TaskAt(syncedItem.googleListId, syncedItem.googleTaskId)
      THEN Thrown(db, lists, tasks, nextTask, nextRandom, "patch failed",
                  {"getSyncedItem", "loadSecrets", "tasks.patch"})
      ELSE IF f.call = "updateSyncedItem"
      THEN Thrown(db, lists, patched, nextTask, nextRandom, "update failed",
                  {"getSyncedItem", "loadSecrets", "tasks.patch", "updateSyncedItem"})
      ELSE Returned(updateSyncedItem(db, uid, payload.completed), lists, patched, nextTask,
                    nextRandom,
                    [taskId |-> syncedItem.googleTaskId, success |-> TRUE, timestamp |-> Now,
                     message |-> "Task marked as " \o action],
                    {"getSyncedItem", "loadSecrets", "tasks.patch", "updateSyncedItem"})

\* the check for an existing mapping left out
AlreadySyncedNever(existing, force) == FALSE

\* if (existing && !force)
AlreadySynced(existing, force) == existing /\ ~force

\* a generator that hands out the identifier of the client's first reminder
randomUUIDFirstUid == NoUid + 1

\* crypto.randomUUID(): an identifier no client and no earlier call has used
randomUUID == UuidBase + nextRandom + 1

createTaskFromWebhook(payload, f) ==
  LET uid == IF payload.uid # NoUid THEN payload.uid ELSE randomUUID
      nr == IF payload.uid # NoUid THEN nextRandom ELSE nextRandom + 1
      existing == getSyncedItem(uid)
      listName == IF payload.list # "" THEN payload.list ELSE DefaultListName
      found == findOrCreateTaskList(listName)
      targetListId == found.id
      forced == existing /\ payload.force
      listIdForUpdate == IF db[uid].googleListId # NoList THEN db[uid].googleListId
                         ELSE targetListId
      taskExists == forced /\ taskExistsInList(listIdForUpdate, db[uid].googleTaskId,
                                               f.call = "tasks.get")
      created == createTaskInList(targetListId, [title |-> payload.title, completed |-> FALSE])
      taskId == IF taskExists THEN db[uid].googleTaskId ELSE created.id
      message == IF taskExists THEN "Task updated successfully"
                 ELSE "Task created successfully"
      tasks2 == IF taskExists
                THEN updateTaskInListTitle(listIdForUpdate, taskId, payload.title)
                ELSE created.tasks
      nt == IF taskExists THEN nextTask ELSE nextTask + 1
      ops1 == {"getSyncedItem", "loadSecrets"} \cup found.ops
      ops2 == ops1 \cup (IF forced THEN {"tasks.get"} ELSE {})
                   \cup (IF taskExists THEN {"tasks.patch"} ELSE {"tasks.insert"})
  IN  IF payload.title = ""
      THEN Returned(db, lists, tasks, nextTask, nextRandom,
                    [success |-> FALSE, timestamp |-> Now,
                     message |-> "Missing required field: title"], {})
      ELSE IF f.call = "getSyncedItem"
      THEN Thrown(db, lists, tasks, nextTask, nr, "read failed", {"getSyncedItem"})
      ELSE IF AlreadySynced(existing, payload.force)
      THEN Returned(db, lists, tasks, nextTask, nr,
                    [taskId |-> db[uid].googleTaskId, success |-> TRUE, timestamp |-> Now,
                     message |-> "Already synced"],
                    {"getSyncedItem"})
      ELSE IF loadSecretsFails(f)
      THEN Thrown(db, lists, tasks, nextTask, nr, "secrets unavailable",
                  {"getSyncedItem", "loadSecrets"})
      ELSE IF f.call = "tasklists.list"
      THEN Thrown(db, lists, tasks, nextTask, nr, "Cannot create task list",
                  {"getSyncedItem", "loadSecrets", "tasklists.list"})
      ELSE IF (taskExists /\ f.call = "tasks.patch") \/ (~taskExists /\ f.call = "tasks.insert")
      THEN Thrown(db, found.lists, tasks, nextTask, nr, "call failed", ops2)
      ELSE IF f.call = "saveSyncedItem"
      THEN Thrown(db, found.lists, tasks2, nt, nr, "save failed",
                  ops2 \cup {"saveSyncedItem"})
      ELSE Returned(saveSyncedItem(db, [title |-> payload.title, completed |-> FALSE,
                                        icloudUid |-> uid, googleTaskId |-> taskId,
                                        googleListId |-> targetListId]),
                    found.lists, tasks2, nt, nr,
                    [taskId |-> taskId, success |-> TRUE, timestamp |-> Now, message |-> message],
                    ops2 \cup {"saveSyncedItem"})

(* ---------------------------- request handler -------------------------- *)

\* a request: the method, the query parameters action, debug and listName, the token
\* in the x-webhook-secret header and in the secret query parameter ("" when absent),
\* and the JSON body
Request(method, action, debug, listName, header, query, body) ==
  [body |-> body, listName |-> listName, action |-> action, method |-> method, debug |-> debug,
   header |-> header, query |-> query]

\* res.status(status).json(body) with nothing else done
Respond(status, body) ==
  [db |-> db, lists |-> lists, tasks |-> tasks, nextTask |-> nextTask,
   nextRandom |-> nextRandom, ops |-> {}, status |-> status, body |-> body]

\* an answer whose status does not tell a thrown error from a returned body
AnswerNoCatch(r, okStatus) ==
  [db |-> r.db, lists |-> r.lists, tasks |-> r.tasks, nextTask |-> r.nextTask,
   nextRandom |-> r.nextRandom, ops |-> r.ops, status |-> okStatus, body |-> r.body]

\* an answer whose status is 200 whatever the function returned or threw
AnswerAlwaysOk(r, okStatus) ==
  [db |-> r.db, lists |-> r.lists, tasks |-> r.tasks, nextTask |-> r.nextTask,
   nextRandom |-> r.nextRandom, ops |-> r.ops, status |-> 200,
   body |-> IF r.thrown
            THEN [error |-> r.body.error, success |-> FALSE, timestamp |-> Now]
            ELSE r.body]

\* the try block's answer to what a handler function returned, and the catch block's
\* answer to what it threw
Answer(r, okStatus) ==
  [db |-> r.db, lists |-> r.lists, tasks |-> r.tasks, nextTask |-> r.nextTask,
   nextRandom |-> r.nextRandom, ops |-> r.ops,
   status |-> IF r.thrown THEN 500 ELSE okStatus,
   body |-> IF r.thrown
            THEN [error |-> r.body.error, success |-> FALSE, timestamp |-> Now]
            ELSE r.body]

\* the debug branch of GET: the tasks of the list of this name
debugList(listName, f) ==
  IF loadSecretsFails(f)
  THEN Thrown(db, lists, tasks, nextTask, nextRandom, "secrets unavailable", {"loadSecrets"})
  ELSE
    LET found == findOrCreateTaskList(listName)
        ids == listTasksInList(found.id)
    IN  Returned(db, found.lists, tasks, nextTask, nextRandom,
                 [tasks |-> [i \in DOMAIN ids |->
                               [id |-> ids[i], title |-> tasks[ids[i]].title,
                                status |-> tasks[ids[i]].status]],
                  listId |-> found.id, success |-> TRUE, listName |-> listName],
                 {"loadSecrets", "tasks.list"} \cup found.ops)

\* a POST branch that answers 200 whatever the function returned
PostStatusOk(r) == 200

PostStatus(r) == IF ~r.thrown /\ ~r.body.success THEN 400 ELSE 200

\* a handler that reads the header only
providedSecretHeaderOnly(req) == req.header

\* a handler that reads the query parameter before the header
providedSecretQueryFirst(req) == IF req.query # "" THEN req.query ELSE req.header

\* req.headers['x-webhook-secret'] || req.query.secret
providedSecret(req) == IF req.header # "" THEN req.header ELSE req.query

\* a handler that compares the token also when no secret is configured
ConfiguredAlways(webhookSecret) == TRUE

\* if (webhookSecret): the variable is set and not empty
Configured(webhookSecret) == webhookSecret # ""

handleRequest(req, f) ==
  LET webhookSecret == envSecret
  IN  IF req.method = "OPTIONS" THEN Respond(204, NoBody)
      ELSE IF Configured(webhookSecret) /\ providedSecret(req) # webhookSecret
      THEN Respond(401, [error |-> "Unauthorized", success |-> FALSE])
      ELSE IF req.method = "POST"
      THEN IF req.action = "register"
           THEN LET r == registerSyncedTask(req.body, f) IN Answer(r, PostStatus(r))
           ELSE IF req.action = "status"
           THEN LET r == updateTaskStatus(req.body, f) IN Answer(r, PostStatus(r))
           ELSE LET r == createTaskFromWebhook(req.body, f) IN Answer(r, PostStatus(r))
      ELSE IF req.method = "GET"
      THEN IF req.action = "google-status" THEN Answer(getGoogleStatusChanges(f), 200)
           ELSE IF req.action = "new-tasks" THEN Answer(getNewTasks(f), 200)
           ELSE IF req.action = "synced" THEN Answer(getSyncedItems(f), 200)
           ELSE IF req.debug = "list" /\ req.listName # ""
           THEN Answer(debugList(req.listName, f), 200)
           ELSE Respond(200, [success |-> TRUE, timestamp |-> Now,
                              message |-> "Tasks Sync webhook is running. "
                                            \o "Send POST requests with reminder data."])
      ELSE Respond(405, [error |-> "Method not allowed", success |-> FALSE])

\* the record of a served request: the request, the answer, the calls made, and how
\* many remote tasks, remote lists and mapping documents it added
Served(req, a) ==
  [ops |-> a.ops, status |-> a.status, body |-> a.body, req |-> req,
   tasksMade |-> a.nextTask - nextTask, listsMade |-> Len(a.lists) - Len(lists),
   docsMade |-> Cardinality(DOMAIN a.db) - Cardinality(DOMAIN db)]

NoRequest ==
  [ops |-> {}, status |-> 0, body |-> NoBody, req |-> Request("", "", "", "", "", "", NoBody),
   tasksMade |-> 0, listsMade |-> 0, docsMade |-> 0]

RemoteOps ==
  {"tasklists.list", "tasklists.insert", "tasks.get", "tasks.patch", "tasks.insert",
   "tasks.list", "getTask"}

StoreWrites == {"saveSyncedItem", "updateSyncedItem"}

StoreReads == {"getSyncedItem", "getAllSyncedItems"}

(* ----------------------------- local store ----------------------------- *)

\* eventStore.calendarItem(withIdentifier:) as? EKReminder
calendarItem(uid) == uid \in DOMAIN reminders

\* an update that sets isCompleted without saving the reminder
updateReminderStatusUnsaved(uid, completed, saveFails) ==
  [reminders |-> reminders, ok |-> calendarItem(uid) /\ ~saveFails]

updateReminderStatus(uid, completed, saveFails) ==
  IF calendarItem(uid) /\ ~saveFails
  THEN [reminders |-> [reminders EXCEPT ![uid].completed = completed], ok |-> TRUE]
  ELSE [reminders |-> reminders, ok |-> FALSE]

\* the reminder's calendar: the one titled like the list, else the default one
calendarFor(listName) ==
  IF listName \in Range(Calendars) THEN listName ELSE Calendars[1]

\* a createReminder that leaves out the completion status
createReminderIncomplete(task, saveFails) ==
  IF saveFails THEN [reminders |-> reminders, nextUid |-> nextUid, uid |-> NoUid]
  ELSE [reminders |-> Put(reminders, nextUid,
                          [list |-> calendarFor(task.listName), title |-> task.title,
                           completed |-> FALSE, origin |-> task.googleTaskId]),
        nextUid |-> nextUid + 1, uid |-> nextUid]

\* origin is not a field of the reminder: it remembers the remote task an import made
\* the reminder from (NoTask for a reminder of the user's own)
createReminder(task, saveFails) ==
  IF saveFails THEN [reminders |-> reminders, nextUid |-> nextUid, uid |-> NoUid]
  ELSE [reminders |-> Put(reminders, nextUid,
                          [list |-> calendarFor(task.listName), title |-> task.title,
                           completed |-> task.completed, origin |-> task.googleTaskId]),
        nextUid |-> nextUid + 1, uid |-> nextUid]

\* eventStore.fetchReminders(matching: predicateForIncompleteReminders)
incompleteReminders == SortedSeq({u \in DOMAIN reminders : ~reminders[u].completed})

(* ------------------------------ the client ----------------------------- *)

\* JSONDecoder().decode succeeds: the body has the struct's non-optional fields
Decodes(body, fields) == fields \subseteq DOMAIN body

WebhookResponseFields == {"success", "message"}

\* the driver's requests carry the secret in the query
Get(action) == Request("GET", action, "", "", "", WEBHOOK_SECRET, NoBody)

Post(action, body) == Request("POST", action, "", "", "", WEBHOOK_SECRET, body)

\* one exchange with the handler under fault f: the handler's answer, the body the
\* client receives, and whether the fault made a difference
Exchange(req, f) ==
  LET a == handleRequest(req, IF f.call \in {"response", "eventStore.save"} THEN NoFault ELSE f)
  IN  [a |-> a,
       seen |-> IF f.call = "response" THEN NoBody ELSE a.body,
       met |-> f.call = "response" \/ (f # NoFault /\ a # handleRequest(req, NoFault))]

\* a fault may be injected while the budget lasts, and only where it is met
MayFail(f, met) == f = NoFault \/ (met /\ events < MaxEvents)

Counted(f) == IF f = NoFault THEN events ELSE events + 1

\* the stores stay within the bounds
Within(a) == a.nextTask <= MaxTasks + 1 /\ a.nextRandom <= MaxRandom

(* ------------------------------ the driver ----------------------------- *)

NoHist ==
  [created |-> {}, db0 |-> << >>, rem0 |-> << >>, tasks0 |-> << >>, faulted |-> FALSE,
   submitted |-> {}]

\* the faults of the driver's specification: one for each place where a failure
\* leaves the stores in a different state
FetchFaults == {NoFault, Fault("getAllSyncedItems"), Fault("response")}

\* fetchNewTasks: the listing of the first task list may fail too
NewTasksFaults == FetchFaults \cup {Fault("tasks.list")}

StatusFaults ==
  {NoFault, Fault("response")} \cup {[call |-> "updateSyncedItem", at |-> k] : k \in 1..MaxReminders}

UpdateFaults ==
  {NoFault, Fault("getSyncedItem"), Fault("tasks.patch"), Fault("updateSyncedItem"),
   Fault("response")}

RegisterFaults == {NoFault, Fault("eventStore.save"), Fault("saveSyncedItem"), Fault("response")}

CreateFaults ==
  {NoFault, Fault("getSyncedItem"), Fault("tasks.get"), Fault("tasks.patch"),
   Fault("tasks.insert"), Fault("saveSyncedItem"), Fault("response")}

LocalFaults == {NoFault, Fault("eventStore.save")}

\* a loop left before it has run over all its items
LoopLeftEarly == TRUE

\* the step of main a phase may be left at: its loop has run over all its items
LoopDone == queue = << >>

\* main, step 1: fetchGoogleStatusChanges
FetchGoogleStatusChanges(force, reset, f) ==
  LET req == Get("google-status")
      x == Exchange(req, f)
      ok == Decodes(x.seen, {"success", "changes", "timestamp"}) /\ x.seen.success
  IN  /\ pc = "idle"
      /\ pass < MaxPasses
      /\ MayFail(f, x.met)
      /\ pass' = pass + 1
      /\ forceSync' = force
      /\ resetSync' = reset
      /\ pc' = "step1"
      /\ queue' = IF ok THEN x.seen.changes ELSE << >>
      /\ db' = x.a.db
      /\ last' = Served(req, x.a)
      /\ cachedSecrets' = Cached(last'.ops, f)
      /\ UNCHANGED <<inflight, envSecret>>
      /\ events' = Counted(f)
      /\ hist' = [created |-> {}, db0 |-> db, rem0 |-> reminders, tasks0 |-> tasks,
                  faulted |-> f # NoFault, submitted |-> {}]
      /\ importedUIDs' = {}
      /\ UNCHANGED <<lists, tasks, nextTask, nextRandom, reminders, nextUid, syncStateFile,
                     state>>

\* main, step 1: the loop applying the changes to Apple Reminders
ApplyGoogleChange(f) ==
  LET change == Head(queue)
      r == updateReminderStatus(change.uid, change.completed, f.call = "eventStore.save")
  IN  /\ pc = "step1"
      /\ queue # << >>
      /\ MayFail(f, calendarItem(change.uid))
      /\ reminders' = r.reminders
      /\ queue' = Tail(queue)
      /\ events' = Counted(f)
      /\ hist' = [hist EXCEPT !.faulted = @ \/ f # NoFault]
      /\ UNCHANGED <<serverVars, nextUid, syncStateFile, state, forceSync, resetSync, pc,
                     importedUIDs, last, pass, cachedSecrets, inflight, envSecret>>

\* main, step 1.5: fetchSyncedItems
FetchSyncedItems(f) ==
  LET req == Get("synced")
      x == Exchange(req, f)
      ok == Decodes(x.seen, {"success", "items", "timestamp"}) /\ x.seen.success
  IN  /\ pc = "step1"
      /\ LoopDone
      /\ MayFail(f, x.met)
      /\ pc' = "step1.5"
      /\ queue' = IF ok THEN x.seen.items ELSE << >>
      /\ last' = Served(req, x.a)
      /\ cachedSecrets' = Cached(last'.ops, f)
      /\ UNCHANGED <<inflight, envSecret>>
      /\ events' = Counted(f)
      /\ hist' = [hist EXCEPT !.faulted = @ \/ f # NoFault]
      /\ UNCHANGED <<serverVars, localVars, syncStateFile, state, forceSync, resetSync,
                     importedUIDs, pass>>

\* main, step 1.5: the loop comparing each synced item with its reminder
SyncStatusToGoogle(f) ==
  LET item == Head(queue)
      differs == calendarItem(item.icloudUid)
                   /\ reminders[item.icloudUid].completed # item.completed
      req == Post("status", [completed |-> reminders[item.icloudUid].completed,
                             icloudUid |-> item.icloudUid])
      x == Exchange(req, f)
  IN  /\ pc = "step1.5"
      /\ queue # << >>
      /\ queue' = Tail(queue)
      /\ IF differs
         THEN /\ MayFail(f, x.met)
              /\ db' = x.a.db
              /\ tasks' = x.a.tasks
              /\ last' = Served(req, x.a)
              /\ cachedSecrets' = Cached(last'.ops, f)
              /\ UNCHANGED <<inflight, envSecret>>
              /\ events' = Counted(f)
              /\ hist' = [hist EXCEPT !.faulted = @ \/ f # NoFault]
         ELSE /\ f = NoFault
              /\ UNCHANGED <<db, tasks, last, events, hist, cachedSecrets, inflight, envSecret>>
      /\ UNCHANGED <<lists, nextTask, nextRandom, localVars, syncStateFile, state, forceSync,
                     resetSync, pc, importedUIDs, pass>>

\* main, step 2: fetchNewTasks
FetchNewTasks(f) ==
  LET req == Get("new-tasks")
      x == Exchange(req, f)
      ok == Decodes(x.seen, {"success", "tasks", "timestamp"}) /\ x.seen.success
  IN  /\ pc = "step1.5"
      /\ LoopDone
      /\ MayFail(f, x.met)
      /\ pc' = "step2"
      /\ queue' = IF ok THEN x.seen.tasks ELSE << >>
      /\ last' = Served(req, x.a)
      /\ cachedSecrets' = Cached(last'.ops, f)
      /\ UNCHANGED <<inflight, envSecret>>
      /\ events' = Counted(f)
      /\ hist' = [hist EXCEPT !.faulted = @ \/ f # NoFault]
      /\ UNCHANGED <<serverVars, localVars, syncStateFile, state, forceSync, resetSync,
                     importedUIDs, pass>>

\* main, step 2: the loop importing each new task: createReminder, then
\* registerSyncedTask when the reminder was saved
ImportTask(f) ==
  LET task == Head(queue)
      c == createReminder(task, f.call = "eventStore.save")
      req == Post("register", [title |-> task.title, completed |-> task.completed,
                               icloudUid |-> c.uid, googleTaskId |-> task.googleTaskId,
                               googleListId |-> task.googleListId])
      x == Exchange(req, f)
      registered == Decodes(x.seen, WebhookResponseFields) /\ x.seen.success
  IN  /\ pc = "step2"
      /\ queue # << >>
      /\ nextUid <= MaxReminders
      /\ queue' = Tail(queue)
      /\ reminders' = c.reminders
      /\ nextUid' = c.nextUid
      /\ events' = Counted(f)
      /\ IF c.uid # NoUid
         THEN /\ MayFail(f, x.met)
              /\ db' = x.a.db
              /\ last' = Served(req, x.a)
              /\ cachedSecrets' = Cached(last'.ops, f)
              /\ UNCHANGED <<inflight, envSecret>>
              /\ importedUIDs' = IF registered THEN importedUIDs \cup {c.uid}
                                 ELSE importedUIDs
              /\ hist' = [hist EXCEPT !.faulted = @ \/ f # NoFault,
                                      !.created = @ \cup {c.uid}]
         ELSE /\ MayFail(f, TRUE)
              /\ hist' = [hist EXCEPT !.faulted = TRUE]
              /\ UNCHANGED <<db, last, importedUIDs, cachedSecrets, inflight, envSecret>>
      /\ UNCHANGED <<lists, tasks, nextTask, nextRandom, syncStateFile, state, forceSync,
                     resetSync, pc, pass>>

\* main, step 3: the fetch of the incomplete reminders, loadSyncState and the reset
FetchReminders ==
  /\ pc = "step2"
  /\ LoopDone
  /\ pc' = "step3"
  /\ queue' = incompleteReminders
  /\ state' = IF resetSync THEN {} ELSE syncStateFile
  /\ syncStateFile' = IF resetSync THEN {} ELSE syncStateFile
  /\ UNCHANGED <<serverVars, localVars, forceSync, resetSync, importedUIDs, last, pass,
                 events, hist, cachedSecrets, inflight, envSecret>>

\* a payload that sets the force flag on a reset too
WebhookPayloadResetForces(uid) ==
  [list |-> reminders[uid].list, title |-> reminders[uid].title, uid |-> uid,
   force |-> forceSync \/ resetSync]

\* syncReminder's payload
WebhookPayload(uid) ==
  [list |-> reminders[uid].list, title |-> reminders[uid].title, uid |-> uid,
   force |-> forceSync]

\* the uids main skips in step 3
Skipped(uid) == uid \in importedUIDs \/ (~forceSync /\ uid \in state)

\* a switch over syncReminder's result that records the reminder whatever the result
RecordedAlways(seen) == TRUE

\* the results of syncReminder after which main records the reminder in its state:
\* .success and .updated
Recorded(seen) ==
  Decodes(seen, WebhookResponseFields) /\ seen.success /\ seen.message # "Already synced"

\* main, step 3: the loop over the incomplete reminders: skip, or syncReminder and
\* the switch over its result
PushReminder(f) ==
  LET uid == Head(queue)
      req == Post("", WebhookPayload(uid))
      x == Exchange(req, f)
      recorded == Recorded(x.seen)
  IN  /\ pc = "step3"
      /\ queue # << >>
      /\ queue' = Tail(queue)
      /\ IF Skipped(uid)
         THEN /\ f = NoFault
              /\ UNCHANGED <<serverVars, state, last, events, hist, cachedSecrets, inflight,
                             envSecret>>
         ELSE /\ MayFail(f, x.met)
              /\ Within(x.a)
              /\ db' = x.a.db
              /\ lists' = x.a.lists
              /\ tasks' = x.a.tasks
              /\ nextTask' = x.a.nextTask
              /\ nextRandom' = x.a.nextRandom
              /\ last' = Served(req, x.a)
              /\ cachedSecrets' = Cached(last'.ops, f)
              /\ UNCHANGED <<inflight, envSecret>>
              /\ state' = IF recorded THEN state \cup {uid} ELSE state
              /\ events' = Counted(f)
              /\ hist' = [hist EXCEPT !.faulted = @ \/ f # NoFault,
                                      !.submitted = @ \cup {uid}]
      /\ UNCHANGED <<localVars, syncStateFile, forceSync, resetSync, pc, importedUIDs, pass>>

\* main, the end: saveSyncState
SaveSyncState ==
  /\ pc = "step3"
  /\ LoopDone
  /\ pc' = "done"
  /\ syncStateFile' = state
  /\ UNCHANGED <<serverVars, localVars, state, forceSync, resetSync, queue, importedUIDs,
                 last, pass, events, hist, cachedSecrets, inflight, envSecret>>

\* the process exits; the next pass is a new process
Exit ==
  /\ pc = "done"
  /\ pc' = "idle"
  /\ state' = {}
  /\ importedUIDs' = {}
  /\ forceSync' = FALSE
  /\ resetSync' = FALSE
  /\ hist' = NoHist
  /\ UNCHANGED <<serverVars, localVars, syncStateFile, queue, last, pass, events,
                 cachedSecrets, inflight, envSecret>>

(* ------------------------------ the users ------------------------------ *)

\* the users act between passes
UserMayAct == pc = "idle" /\ events < MaxEvents

AppleUserAddsReminder(cal) ==
  /\ UserMayAct
  /\ nextUid <= MaxReminders
  /\ reminders' = Put(reminders, nextUid,
                      [list |-> cal, title |-> "milk", completed |-> FALSE, origin |-> NoTask])
  /\ nextUid' = nextUid + 1
  /\ events' = events + 1
  /\ UNCHANGED <<serverVars, driverVars, last, cachedSecrets, inflight, envSecret>>

AppleUserSetsCompleted(uid) ==
  /\ UserMayAct
  /\ uid \in DOMAIN reminders
  /\ reminders' = [reminders EXCEPT ![uid].completed = ~@]
  /\ events' = events + 1
  /\ UNCHANGED <<serverVars, nextUid, driverVars, last, cachedSecrets, inflight, envSecret>>

AppleUserDeletesReminder(uid) ==
  /\ UserMayAct
  /\ uid \in DOMAIN reminders
  /\ reminders' = Remove(reminders, uid)
  /\ events' = events + 1
  /\ UNCHANGED <<serverVars, nextUid, driverVars, last, cachedSecrets, inflight, envSecret>>

\* the titles of the tasks the user of Google Tasks adds ("": a task left untitled)
TaskTitles == {"report", ""}

GoogleUserAddsTask(listId, title) ==
  /\ UserMayAct
  /\ nextTask <= MaxTasks
  /\ listId \in DOMAIN lists
  /\ tasks' = Put(tasks, nextTask,
                  [list |-> listId, title |-> title, deleted |-> FALSE,
                   status |-> "needsAction"])
  /\ nextTask' = nextTask + 1
  /\ events' = events + 1
  /\ UNCHANGED <<db, lists, nextRandom, localVars, driverVars, last, cachedSecrets, inflight,
                 envSecret>>

GoogleUserSetsStatus(taskId) ==
  /\ UserMayAct
  /\ taskId \in DOMAIN tasks
  /\ tasks' = [tasks EXCEPT ![taskId].status =
                 IF @ = "completed" THEN "needsAction" ELSE "completed"]
  /\ events' = events + 1
  /\ UNCHANGED <<db, lists, nextTask, nextRandom, localVars, driverVars, last,
                 cachedSecrets, inflight, envSecret>>

\* the task goes to the trash: it is still listed, flagged deleted
GoogleUserDeletesTask(taskId) ==
  /\ UserMayAct
  /\ taskId \in DOMAIN tasks
  /\ ~tasks[taskId].deleted
  /\ tasks' = [tasks EXCEPT ![taskId].deleted = TRUE]
  /\ events' = events + 1
  /\ UNCHANGED <<db, lists, nextTask, nextRandom, localVars, driverVars, last,
                 cachedSecrets, inflight, envSecret>>

\* the task is gone: tasks.get no longer finds it
GoogleUserPurgesTask(taskId) ==
  /\ UserMayAct
  /\ taskId \in DOMAIN tasks
  /\ tasks' = Remove(tasks, taskId)
  /\ events' = events + 1
  /\ UNCHANGED <<db, lists, nextTask, nextRandom, localVars, driverVars, last,
                 cachedSecrets, inflight, envSecret>>

(* ------------------------- concurrent requests -------------------------- *)

\* the invocations of the handler that may be in progress at the same time
Handlers == {"A", "B"}

\* an invocation that has received no request
NoCall ==
  [taskId |-> 0, existing |-> FALSE, status |-> 0,
   payload |-> [list |-> "", title |-> "", uid |-> NoUid, force |-> FALSE],
   message |-> "", targetListId |-> NoList, await |-> "none", existingTaskId |-> 0,
   existingListId |-> NoList]

(* ---------------------------- specification ---------------------------- *)

\* the stores, the driver and the handler before anything has run
InitStores ==
  /\ db = << >>
  /\ lists = <<"My Tasks">>
  /\ tasks = << >>
  /\ nextTask = 1
  /\ nextRandom = 0
  /\ cachedSecrets = FALSE
  /\ reminders = << >>
  /\ nextUid = 1
  /\ syncStateFile = {}
  /\ state = {}
  /\ forceSync = FALSE
  /\ resetSync = FALSE
  /\ pc = "idle"
  /\ queue = << >>
  /\ importedUIDs = {}
  /\ last = NoRequest
  /\ pass = 0
  /\ events = 0
  /\ hist = NoHist
  /\ inflight = [h \in Handlers |-> NoCall]

\* the function is deployed with the shared secret
Init == InitStores /\ envSecret = WEBHOOK_SECRET

\* the function is deployed without WEBHOOK_SECRET
InitOpen == InitStores /\ envSecret = ""

UserStep ==
  \/ \E cal \in Range(Calendars) : AppleUserAddsReminder(cal)
  \/ \E uid \in DOMAIN reminders : AppleUserSetsCompleted(uid)
  \/ \E uid \in DOMAIN reminders : AppleUserDeletesReminder(uid)
  \/ \E listId \in DOMAIN lists, title \in TaskTitles : GoogleUserAddsTask(listId, title)
  \/ \E taskId \in DOMAIN tasks : GoogleUserSetsStatus(taskId)
  \/ \E taskId \in DOMAIN tasks : GoogleUserDeletesTask(taskId)
  \/ \E taskId \in DOMAIN tasks : GoogleUserPurgesTask(taskId)

DriverStep ==
  \/ \E force \in BOOLEAN, reset \in BOOLEAN, f \in StatusFaults :
       FetchGoogleStatusChanges(force, reset, f)
  \/ \E f \in LocalFaults : ApplyGoogleChange(f)
  \/ \E f \in FetchFaults : FetchSyncedItems(f)
  \/ \E f \in UpdateFaults : SyncStatusToGoogle(f)
  \/ \E f \in NewTasksFaults : FetchNewTasks(f)
  \/ \E f \in RegisterFaults : ImportTask(f)
  \/ FetchReminders
  \/ \E f \in CreateFaults : PushReminder(f)
  \/ SaveSyncState
  \/ Exit

Next == UserStep \/ DriverStep

Spec == Init /\ [][Next]_vars

\* the scheduler starts the driver again and again; the passes beyond MaxPasses are
\* counted as the last one
RunAgain ==
  /\ pc = "idle"
  /\ pass = MaxPasses
  /\ pass' = pass - 1
  /\ UNCHANGED <<serverVars, localVars, syncStateFile, state, forceSync, resetSync, pc, queue,
                 importedUIDs, last, events, hist, cachedSecrets, inflight, envSecret>>

NextLive == Next \/ RunAgain

\* ENABLED <<DriverStep>>_vars written out: main can take its next step unless the
\* passes or the stores of the model are used up
CanStep ==
  CASE pc = "idle" -> pass < MaxPasses
    [] pc = "step2" /\ queue # << >> -> nextUid <= MaxReminders
    [] pc = "step3" /\ queue # << >> /\ ~Skipped(Head(queue)) ->
         \E f \in CreateFaults :
           LET x == Exchange(Post("", WebhookPayload(Head(queue))), f)
           IN  MayFail(f, x.met) /\ Within(x.a)
    [] OTHER -> TRUE

\* WF_vars(DriverStep): the process running main is not suspended forever
DriverFairness == []<>(~CanStep) \/ []<><<DriverStep>>_vars

\* passes keep being run, each to its end; calls fail and the users act MaxEvents
\* times at most, so that every call eventually succeeds
SpecLive == Init /\ [][NextLive]_vars /\ DriverFairness /\ WF_vars(RunAgain)

(* ----------------------- requests sent by any client ------------------- *)

\* the identities, list names and titles a client may send ("" and NoUid: absent)
ClientUids == {NoUid, 1, 2}

ClientLists == {"", "Work"}

\* the list names of the debug branch: two titles that differ only in case
DebugLists == {"Work", "work"}

\* the payloads of a create request: every list, identity and force flag, and one
\* payload without a title
CreatePayloads ==
  {[list |-> l, title |-> "milk", uid |-> u, force |-> fc] :
     l \in ClientLists, u \in ClientUids, fc \in BOOLEAN}
    \cup {[list |-> "", title |-> "", uid |-> u, force |-> fc] :
            u \in {NoUid, 1}, fc \in BOOLEAN}

\* the calls that fail while a request of each kind is served
CreateRequestFaults ==
  {NoFault, Fault("getSyncedItem"), Fault("loadSecrets"), Fault("tasks.get"),
   Fault("tasks.insert"), Fault("saveSyncedItem")}

RegisterRequestFaults == {NoFault, Fault("saveSyncedItem")}

UpdateRequestFaults == {NoFault, Fault("loadSecrets"), Fault("updateSyncedItem")}

GetRequestFaults == {NoFault, Fault("loadSecrets"), Fault("updateSyncedItem")}

\* the handler serves one request; f is the call that fails while it does
Serve(req, f) ==
  LET x == Exchange(req, f)
  IN  /\ MayFail(f, x.met)
      /\ Counted(f) < MaxEvents
      /\ Within(x.a)
      /\ db' = x.a.db
      /\ lists' = x.a.lists
      /\ tasks' = x.a.tasks
      /\ nextTask' = x.a.nextTask
      /\ nextRandom' = x.a.nextRandom
      /\ last' = Served(req, x.a)
      /\ cachedSecrets' = Cached(last'.ops, f)
      /\ UNCHANGED <<inflight, envSecret>>
      /\ events' = Counted(f) + 1
      /\ UNCHANGED <<localVars, driverVars>>

PostCreate(payload, f) == Serve(Post("", payload), f)

PostRegister(taskId, uid, completed, f) ==
  Serve(Post("register", [title |-> tasks[taskId].title, completed |-> completed,
                          icloudUid |-> uid, googleTaskId |-> taskId,
                          googleListId |-> tasks[taskId].list]), f)

PostUpdateStatus(uid, completed, f) ==
  Serve(Post("status", [completed |-> completed, icloudUid |-> uid]), f)

GetAction(action, f) == Serve(Get(action), f)

GetDebugList(listName, f) ==
  Serve(Request("GET", "", "list", listName, "", WEBHOOK_SECRET, NoBody), f)

\* the tokens a client puts into the x-webhook-secret header or the secret query
\* parameter: none, a wrong one, the configured one
Tokens == {"", "wrong-secret", WEBHOOK_SECRET}

\* a request of any client: a method, an action and the two tokens
SendRequest(method, action, header, query) ==
  Serve(Request(method, action, "", "", header, query,
                IF method = "POST" THEN [completed |-> TRUE, icloudUid |-> 1] ELSE NoBody),
        NoFault)

HandlerStep ==
  \/ \E header \in Tokens, query \in Tokens :
       \/ \E action \in {"google-status", "synced"} : SendRequest("GET", action, header, query)
       \/ SendRequest("POST", "status", header, query)
       \/ SendRequest("OPTIONS", "", header, query)
       \/ SendRequest("DELETE", "", header, query)
  \/ \E payload \in CreatePayloads, f \in CreateRequestFaults : PostCreate(payload, f)
  \/ \E taskId \in DOMAIN tasks, uid \in ClientUids \ {NoUid}, completed \in BOOLEAN,
        f \in RegisterRequestFaults : PostRegister(taskId, uid, completed, f)
  \/ \E uid \in ClientUids \ {NoUid}, completed \in BOOLEAN, f \in UpdateRequestFaults :
       PostUpdateStatus(uid, completed, f)
  \/ \E action \in {"google-status", "new-tasks", "synced", ""}, f \in GetRequestFaults :
       GetAction(action, f)
  \/ \E listName \in DebugLists, f \in {NoFault, Fault("loadSecrets")} :
       GetDebugList(listName, f)

GoogleUserStep ==
  \/ \E listId \in DOMAIN lists, title \in TaskTitles : GoogleUserAddsTask(listId, title)
  \/ \E taskId \in DOMAIN tasks : GoogleUserSetsStatus(taskId)
  \/ \E taskId \in DOMAIN tasks : GoogleUserDeletesTask(taskId)
  \/ \E taskId \in DOMAIN tasks : GoogleUserPurgesTask(taskId)

\* the platform starts a new instance of the function: the module is loaded anew
\* and cachedSecrets is null again
ColdStart ==
  /\ cachedSecrets
  /\ cachedSecrets' = FALSE
  /\ UNCHANGED <<serverVars, localVars, driverVars, last, events, inflight, envSecret>>

NextHandler == HandlerStep \/ GoogleUserStep \/ ColdStart

SpecHandler == Init /\ [][NextHandler]_vars

\* the requests served by a function deployed without a shared secret
SpecOpen == InitOpen /\ [][NextHandler]_vars

(* ---------------- concurrent invocations of createTaskFromWebhook -------------- *)

\* the create requests that arrive at the same time: requests for one uid, with
\* every list and force flag, and one without a title
ConcurrentPayloads ==
  {[list |-> l, title |-> "milk", uid |-> 1, force |-> fc] :
     l \in ClientLists, fc \in BOOLEAN}
    \cup {[list |-> "", title |-> "", uid |-> 1, force |-> FALSE]}

\* the invocation h goes on as c
Resume(h, c) == inflight' = [inflight EXCEPT ![h] = c]

\* the invocation h returns
Return(h, c, status, message) ==
  Resume(h, [c EXCEPT !.await = "done", !.status = status, !.message = message])

\* the call the invocation awaits once targetListId is known: the force branch
\* looks for the mapped task, every other request inserts a task
AfterTargetList(c) == IF c.existing /\ c.payload.force THEN "tasks.get" ELSE "tasks.insert"

\* const listIdForUpdate = existing.googleListId || targetListId
listIdForUpdate(c) == IF c.existingListId # NoList THEN c.existingListId ELSE c.targetListId

\* the handler is invoked with a create request: the title check, and the call of
\* getSyncedItem
Receive(h, payload) ==
  /\ inflight[h].await = "none"
  /\ IF payload.title = ""
     THEN Return(h, [NoCall EXCEPT !.payload = payload], 400, "Missing required field: title")
     ELSE Resume(h, [NoCall EXCEPT !.payload = payload, !.await = "getSyncedItem"])
  /\ UNCHANGED <<serverVars, cachedSecrets, localVars, driverVars, last, events, envSecret>>

\* await getSyncedItem(uid) resumes: "Already synced", or the call of loadSecrets
GetSyncedItemResumes(h) ==
  LET c == inflight[h]
      existing == getSyncedItem(c.payload.uid)
      read == [c EXCEPT !.existing = existing,
                        !.existingTaskId = IF existing THEN db[c.payload.uid].googleTaskId ELSE 0,
                        !.existingListId = IF existing THEN db[c.payload.uid].googleListId
                                           ELSE NoList]
  IN  /\ c.await = "getSyncedItem"
      /\ IF AlreadySynced(existing, c.payload.force)
         THEN Return(h, [read EXCEPT !.taskId = read.existingTaskId], 200, "Already synced")
         ELSE Resume(h, [read EXCEPT !.await = "loadSecrets"])
      /\ UNCHANGED <<serverVars, cachedSecrets, localVars, driverVars, last, events, envSecret>>

\* await loadSecrets() resumes: findOrCreateTaskList calls getTaskLists
LoadSecretsResumes(h) ==
  LET c == inflight[h]
  IN  /\ c.await = "loadSecrets"
      /\ cachedSecrets' = TRUE
      /\ Resume(h, [c EXCEPT !.await = "tasklists.list"])
      /\ UNCHANGED <<serverVars, localVars, driverVars, last, events, envSecret>>

\* findOrCreateTaskList: await this.getTaskLists() resumes: the list of that title,
\* or the call of tasklists.insert
GetTaskListsResumes(h) ==
  LET c == inflight[h]
      name == IF c.payload.list = "" THEN "Reminders" ELSE c.payload.list
      existing == {l \in DOMAIN lists : lists[l] = name}
  IN  /\ c.await = "tasklists.list"
      /\ IF existing # {}
         THEN Resume(h, [c EXCEPT !.targetListId = Min(existing),
                                  !.await = AfterTargetList(c)])
         ELSE Resume(h, [c EXCEPT !.await = "tasklists.insert"])
      /\ UNCHANGED <<serverVars, cachedSecrets, localVars, driverVars, last, events, envSecret>>

\* findOrCreateTaskList: await tasklists.insert resumes with the new list
InsertTaskListResumes(h) ==
  LET c == inflight[h]
      name == IF c.payload.list = "" THEN "Reminders" ELSE c.payload.list
  IN  /\ c.await = "tasklists.insert"
      /\ lists' = Append(lists, name)
      /\ Resume(h, [c EXCEPT !.targetListId = Len(lists) + 1, !.await = AfterTargetList(c)])
      /\ UNCHANGED <<db, tasks, nextTask, nextRandom, cachedSecrets, localVars, driverVars,
                     last, events, envSecret>>

\* the force branch: await taskExistsInList resumes: the call of updateTaskInList,
\* or of createTaskInList
TaskExistsResumes(h) ==
  LET c == inflight[h]
      taskExists == taskExistsInList(listIdForUpdate(c), c.existingTaskId, FALSE)
  IN  /\ c.await = "tasks.get"
      /\ Resume(h, [c EXCEPT !.await = IF taskExists THEN "tasks.patch" ELSE "tasks.insert"])
      /\ UNCHANGED <<serverVars, cachedSecrets, localVars, driverVars, last, events, envSecret>>

\* the force branch: await updateTaskInList resumes: the call of saveSyncedItem
UpdateTaskResumes(h) ==
  LET c == inflight[h]
  IN  /\ c.await = "tasks.patch"
      /\ tasks' = updateTaskInListTitle(listIdForUpdate(c), c.existingTaskId, c.payload.title)
      /\ Resume(h, [c EXCEPT !.taskId = c.existingTaskId, !.await = "saveSyncedItem",
                             !.message = "Task updated successfully"])
      /\ UNCHANGED <<db, lists, nextTask, nextRandom, cachedSecrets, localVars, driverVars,
                     last, events, envSecret>>

\* await createTaskInList resumes with the id of the new task: the call of
\* saveSyncedItem
CreateTaskResumes(h) ==
  LET c == inflight[h]
      made == createTaskInList(c.targetListId, [title |-> c.payload.title, completed |-> FALSE])
  IN  /\ c.await = "tasks.insert"
      /\ tasks' = made.tasks
      /\ nextTask' = nextTask + 1
      /\ Resume(h, [c EXCEPT !.taskId = made.id, !.await = "saveSyncedItem",
                             !.message = "Task created successfully"])
      /\ UNCHANGED <<db, lists, nextRandom, cachedSecrets, localVars, driverVars, last,
                     events, envSecret>>

\* await saveSyncedItem resumes: the function returns and the handler answers 200
SaveSyncedItemResumes(h) ==
  LET c == inflight[h]
  IN  /\ c.await = "saveSyncedItem"
      /\ db' = saveSyncedItem(db, [title |-> c.payload.title, completed |-> FALSE,
                                   icloudUid |-> c.payload.uid, googleTaskId |-> c.taskId,
                                   googleListId |-> c.targetListId])
      /\ Return(h, c, 200, c.message)
      /\ UNCHANGED <<lists, tasks, nextTask, nextRandom, cachedSecrets, localVars, driverVars,
                     last, events, envSecret>>

NextConcurrent ==
  \/ \E h \in Handlers, payload \in ConcurrentPayloads : Receive(h, payload)
  \/ \E h \in Handlers : GetSyncedItemResumes(h)
  \/ \E h \in Handlers : LoadSecretsResumes(h)
  \/ \E h \in Handlers : GetTaskListsResumes(h)
  \/ \E h \in Handlers : InsertTaskListResumes(h)
  \/ \E h \in Handlers : TaskExistsResumes(h)
  \/ \E h \in Handlers : UpdateTaskResumes(h)
  \/ \E h \in Handlers : CreateTaskResumes(h)
  \/ \E h \in Handlers : SaveSyncedItemResumes(h)

SpecConcurrent == Init /\ [][NextConcurrent]_vars

(* -------------------------------- claims -------------------------------- *)

\* the last request served was a create request for uid with the force flag unset,
\* answered with a newly created task
Pushed(uid) ==
  /\ last.req.method = "POST"
  /\ last.req.action = ""
  /\ last.req.body.uid = uid
  /\ ~last.req.body.force
  /\ last.status = 200
  /\ last.body.message = "Task created successfully"

\* C1: push idempotence. When a create request for uid u with the force flag unset
\* has created the remote task and the mapping of an unmapped u, the next create
\* request for u with the force flag unset creates nothing: the two requests together
\* have made exactly one remote task and one mapping document, the second one makes
\* no remote call and no mapping write and leaves both stores as they are, and,
\* unless it ends in an internal error, it answers 200, success, "Already synced" and
\* the task id the first request answered.
C1_PushIdempotence ==
  [][\A payload \in CreatePayloads, f \in CreateRequestFaults :
       (/\ payload.uid # NoUid
        /\ ~payload.force
        /\ payload.title # ""
        /\ Pushed(payload.uid)
        /\ PostCreate(payload, f))
       => /\ last.tasksMade + last'.tasksMade = 1
          /\ last.docsMade + last'.docsMade = 1
          /\ db' = db /\ tasks' = tasks /\ lists' = lists /\ nextTask' = nextTask
          /\ last'.ops \cap (RemoteOps \cup StoreWrites) = {}
          /\ (last'.status # 500 =>
                /\ last'.status = 200
                /\ last'.body.success
                /\ last'.body.message = "Already synced"
                /\ last'.body.taskId = last.body.taskId
                /\ last'.body.taskId = db[payload.uid].googleTaskId)]_vars

\* two create requests for uid 1 were served and nothing else happened: the second
\* was answered "Already synced", and there is one remote task and one mapping
C1_Witness ==
  /\ events = 2
  /\ last.req.method = "POST" /\ last.req.action = ""
  /\ last.req.body.uid = 1 /\ ~last.req.body.force
  /\ last.status = 200 /\ last.body.message = "Already synced"
  /\ DOMAIN db = {1}
  /\ DOMAIN tasks = {1}

\* a create request with the force flag set for a uid that has a mapping
ForcedRePush(payload) ==
  /\ payload.uid # NoUid
  /\ payload.force
  /\ payload.title # ""
  /\ payload.uid \in DOMAIN db

\* C2: force re-push with a live remote item. A create request with force = true for
\* a uid whose mapping exists and whose mapped remote task still exists at the mapped
\* (listId, itemId) creates no new remote task, and when it is answered 200 it has
\* given that task the request's title and answers "Task updated successfully" with
\* the mapped task id.
C2_ForceUpdatesLiveTask ==
  [][\A payload \in CreatePayloads, f \in CreateRequestFaults :
       (/\ ForcedRePush(payload)
        /\ TaskAt(db[payload.uid].googleListId, db[payload.uid].googleTaskId)
        /\ PostCreate(payload, f))
       => /\ last'.tasksMade = 0
          /\ (last'.status = 200 =>
                /\ last'.body.message = "Task updated successfully"
                /\ last'.body.taskId = db[payload.uid].googleTaskId
                /\ tasks'[db[payload.uid].googleTaskId].title = payload.title)]_vars

\* C3: force re-push with a vanished remote item. A create request with force = true
\* for a uid whose mapping exists but whose mapped remote task no longer exists, when
\* it is answered 200, has created exactly one new remote task, carrying the
\* request's title, and the one mapping of that uid references the new task id; no
\* mapping was added.
C3_ForceRecreatesVanishedTask ==
  [][\A payload \in CreatePayloads, f \in CreateRequestFaults :
       (/\ ForcedRePush(payload)
        /\ db[payload.uid].googleTaskId \notin DOMAIN tasks
        /\ PostCreate(payload, f)
        /\ last'.status = 200)
       => /\ last'.tasksMade = 1
          /\ DOMAIN tasks' = DOMAIN tasks \cup {nextTask}
          /\ nextTask \notin DOMAIN tasks
          /\ tasks'[nextTask].title = payload.title
          /\ last'.body.success
          /\ last'.body.message = "Task created successfully"
          /\ last'.body.taskId = nextTask
          /\ DOMAIN db' = DOMAIN db
          /\ db'[payload.uid].googleTaskId = nextTask
          /\ tasks'[nextTask].list = db'[payload.uid].googleListId]_vars

\* uid 1 was pushed, its remote task 1 was purged, and a forced create request for uid
\* 1 made task 2, which the mapping of uid 1 now references
C3_Witness ==
  /\ last.req.method = "POST" /\ last.req.action = ""
  /\ last.req.body.uid = 1 /\ last.req.body.force
  /\ last.status = 200 /\ last.body.message = "Task created successfully"
  /\ last.docsMade = 0
  /\ DOMAIN tasks = {2}
  /\ DOMAIN db = {1}
  /\ db[1].googleTaskId = 2

\* the remote task ids the mapping documents reference
MappedTaskIds == {db[u].googleTaskId : u \in DOMAIN db}

\* C4: pull exclusivity. In every pass, no task the new-tasks enumeration returned to
\* the driver is referenced by a mapping document, at the fetch and for as long as it
\* waits to be imported; and a reminder the pull phase creates is made from a task
\* that no mapping document referenced.
C4_PullExclusivity ==
  [][/\ (pc' = "step2" =>
           \A i \in DOMAIN queue' : queue'[i].googleTaskId \notin MappedTaskIds)
     /\ (pc' = "step2" /\ pc = "step1.5" /\ last'.status = 200 =>
           \A i \in DOMAIN last'.body.tasks :
             last'.body.tasks[i].googleTaskId \notin MappedTaskIds)
     /\ (pc = "step2" =>
           \A u \in DOMAIN reminders' \ DOMAIN reminders :
             reminders'[u].origin \notin MappedTaskIds)]_vars

\* the second pass has fetched the new tasks: the live task 1 is mapped and is not in
\* the enumeration, the unmapped task 2 is
C4_Witness ==
  /\ pc = "step2"
  /\ pass = 2
  /\ 1 \in MappedTaskIds
  /\ 1 \in DOMAIN tasks /\ ~tasks[1].deleted
  /\ Len(queue) = 1
  /\ queue[1].googleTaskId = 2

\* C5: import/export non-ping-pong. A reminder the pull phase of a pass created is
\* never submitted to the push phase of the same pass.
C5_NoPingPong == hist.created \cap hist.submitted = {}

\* C6: no duplicate imports. No remote task ever has two reminders imported from it,
\* whatever the outcomes of the create-local and register-mapping steps were.
C6_NoDuplicateImports ==
  \A u, v \in DOMAIN reminders :
    (u # v /\ reminders[u].origin # NoTask) => reminders[u].origin # reminders[v].origin

\* at the start of the pass uid had a mapping whose remote task was found at the
\* mapped place
RemoteFoundAtStart(uid) ==
  /\ uid \in DOMAIN hist.db0
  /\ hist.db0[uid].googleTaskId \in DOMAIN hist.tasks0
  /\ hist.tasks0[hist.db0[uid].googleTaskId].list = hist.db0[uid].googleListId

\* the completion of uid's remote task at the start of the pass
RemoteCompletedAtStart(uid) == hist.tasks0[hist.db0[uid].googleTaskId].status = "completed"

\* C7: remote-to-local completion propagation. For a mapping whose stored completed
\* differed from its remote task's completion at the start of a pass while the
\* reminder existed with the stored value, at the end of a pass in which no call
\* failed the reminder's completion and the mapping's stored completed both equal the
\* remote value, which is still the remote task's completion; for completing and for
\* un-completing.
C7_RemoteToLocalCompletion ==
  (pc = "done" /\ ~hist.faulted) =>
    \A uid \in DOMAIN hist.db0 :
      (/\ RemoteFoundAtStart(uid)
       /\ uid \in DOMAIN hist.rem0
       /\ hist.rem0[uid].completed = hist.db0[uid].completed
       /\ RemoteCompletedAtStart(uid) # hist.db0[uid].completed)
      => /\ uid \in DOMAIN reminders
         /\ reminders[uid].completed = RemoteCompletedAtStart(uid)
         /\ db[uid].completed = RemoteCompletedAtStart(uid)
         /\ tasks[hist.db0[uid].googleTaskId].status
              = hist.tasks0[hist.db0[uid].googleTaskId].status

\* a pass without a failing call has ended: uid 1's remote task had been completed
\* since the last pass, and the reminder and the mapping are completed now
C7_Witness ==
  /\ pc = "done"
  /\ ~hist.faulted
  /\ 1 \in DOMAIN hist.db0
  /\ RemoteFoundAtStart(1)
  /\ 1 \in DOMAIN hist.rem0
  /\ ~hist.rem0[1].completed
  /\ ~hist.db0[1].completed
  /\ RemoteCompletedAtStart(1)
  /\ reminders[1].completed
  /\ db[1].completed

\* C8: local-to-remote completion propagation. For a mapping whose reminder existed
\* at the start of a pass with a completion different from the stored completed while
\* the remote task had the stored value, at the end of a pass in which no call failed
\* the remote task at the mapped place has the reminder's completion and the
\* mapping's stored completed equals it; for completing and for un-completing.
C8_LocalToRemoteCompletion ==
  (pc = "done" /\ ~hist.faulted) =>
    \A uid \in DOMAIN hist.db0 :
      (/\ RemoteFoundAtStart(uid)
       /\ uid \in DOMAIN hist.rem0
       /\ hist.rem0[uid].completed # hist.db0[uid].completed
       /\ RemoteCompletedAtStart(uid) = hist.db0[uid].completed)
      => /\ hist.db0[uid].googleTaskId \in DOMAIN tasks
         /\ (tasks[hist.db0[uid].googleTaskId].status = "completed")
              = hist.rem0[uid].completed
         /\ db[uid].completed = hist.rem0[uid].completed
         /\ reminders[uid].completed = hist.rem0[uid].completed

\* a pass without a failing call has ended: uid 1's reminder had been completed since
\* the last pass, and the remote task and the mapping are completed now
C8_Witness ==
  /\ pc = "done"
  /\ ~hist.faulted
  /\ 1 \in DOMAIN hist.db0
  /\ RemoteFoundAtStart(1)
  /\ 1 \in DOMAIN hist.rem0
  /\ hist.rem0[1].completed
  /\ ~hist.db0[1].completed
  /\ ~RemoteCompletedAtStart(1)
  /\ tasks[hist.db0[1].googleTaskId].status = "completed"
  /\ db[1].completed

\* C9: deleted-on-other-side tolerance. When the reminder behind a mapping no longer
\* exists at the start of a pass and the remote task's completion differs from the
\* stored completed, the pass runs to its end and the mapping document is then what
\* it was at the start, so that the next pass sees the same mismatch.
C9_MissingReminderLeavesMapping ==
  pc = "done" =>
    \A uid \in DOMAIN hist.db0 :
      (/\ RemoteFoundAtStart(uid)
       /\ uid \notin DOMAIN hist.rem0
       /\ RemoteCompletedAtStart(uid) # hist.db0[uid].completed)
      => db[uid] = hist.db0[uid]

\* the order of main's steps
PhaseOrder ==
  {<<"idle", "step1">>, <<"step1", "step1.5">>, <<"step1.5", "step2">>,
   <<"step2", "step3">>, <<"step3", "done">>, <<"done", "idle">>}

\* the requests main sends in each of its steps
PhaseRequests(phase) ==
  CASE phase = "step1" -> {<<"GET", "google-status">>}
    [] phase = "step1.5" -> {<<"GET", "synced">>, <<"POST", "status">>}
    [] phase = "step2" -> {<<"GET", "new-tasks">>, <<"POST", "register">>}
    [] phase = "step3" -> {<<"POST", "">>}
    [] OTHER -> {}

\* C10: fixed phase order. Every pass goes through (c) pull completion changes, (d)
\* push completion changes, (b) pull new items, (a) push new items in this order: a
\* step is entered from the one before it only, and only when the loop of the one
\* before it has run over all its items; each step sends the requests of its phase
\* only, and reminders are written by (c) and (b) only.
C10_FixedPhaseOrder ==
  [][/\ (pc' # pc => <<pc, pc'>> \in PhaseOrder /\ (pc # "done" => queue = << >>))
     /\ (last' # last => <<last'.req.method, last'.req.action>> \in PhaseRequests(pc'))
     /\ (reminders' # reminders => pc' \in {"idle", "step1", "step2"})]_vars

\* a pass has ended in which the pull phase created a reminder and the push phase
\* submitted another one
C10_Witness ==
  /\ pc = "done"
  /\ hist.created # {}
  /\ hist.submitted # {}
  /\ hist.created \cap hist.submitted = {}

\* the reminder uid is incomplete and has no mapping document
Unpushed(uid) ==
  /\ uid \in DOMAIN reminders
  /\ ~reminders[uid].completed
  /\ uid \notin DOMAIN db

\* the reminder uid has a mapping document and the remote task it references
HasRemote(uid) ==
  /\ uid \in DOMAIN db
  /\ TaskAt(db[uid].googleListId, db[uid].googleTaskId)

\* main cannot go on: the stores of the model are full
Halted == pc # "idle" /\ ~CanStep

\* C11: eventual push. When passes keep being run and every call eventually succeeds,
\* every incomplete reminder without a mapping document eventually has a remote task
\* and a mapping document referencing it, unless its user completes or deletes it
\* first (or the stores of the model are full); a push that failed is retried by a
\* later pass.
C11_EventualPush ==
  \A uid \in 1..MaxReminders :
    Unpushed(uid) ~>
      (HasRemote(uid) \/ uid \notin DOMAIN reminders \/ reminders[uid].completed \/ Halted)

\* the push of the user's reminder 1 failed in the first pass after it had inserted
\* task 1; the second pass, in which no call failed, pushed it again: the mapping
\* references the task it made
C11_Witness ==
  /\ pass = 2
  /\ ~hist.faulted
  /\ 1 \in DOMAIN reminders /\ reminders[1].origin = NoTask /\ ~reminders[1].completed
  /\ DOMAIN tasks = {1, 2}
  /\ tasks[1].title = "milk" /\ tasks[2].title = "milk"
  /\ HasRemote(1)
  /\ db[1].googleTaskId = 2
  /\ last.status = 200 /\ last.body.message = "Task created successfully"

\* C12: push of an unmapped item. A create request {title, list, uid} for a uid
\* without a mapping document, when it is answered 200, has resolved the remote list
\* named list, or "Reminders" when list is absent or empty (the existing list of that
\* name, else a new one appended), has created exactly one remote task in that list,
\* with the request's title and status needsAction, left every other task as it was,
\* and has added exactly the mapping document {uid, the new task id, that list id,
\* completed false}; it answers the new task id.
C12_PushUnmapped ==
  [][\A payload \in CreatePayloads, f \in CreateRequestFaults :
       (/\ payload.uid # NoUid
        /\ payload.title # ""
        /\ payload.uid \notin DOMAIN db
        /\ PostCreate(payload, f)
        /\ last'.status = 200)
       => LET name == IF payload.list = "" THEN "Reminders" ELSE payload.list
              had == {l \in DOMAIN lists : lists[l] = name}
              listId == db'[payload.uid].googleListId
          IN  /\ IF had # {} THEN lists' = lists /\ listId \in had
                             ELSE lists' = Append(lists, name) /\ listId = Len(lists')
              /\ lists'[listId] = name
              /\ nextTask \notin DOMAIN tasks
              /\ DOMAIN tasks' = DOMAIN tasks \cup {nextTask}
              /\ \A t \in DOMAIN tasks : tasks'[t] = tasks[t]
              /\ tasks'[nextTask].list = listId
              /\ tasks'[nextTask].title = payload.title
              /\ tasks'[nextTask].status = "needsAction"
              /\ ~tasks'[nextTask].deleted
              /\ DOMAIN db' = DOMAIN db \cup {payload.uid}
              /\ \A u \in DOMAIN db : db'[u] = db[u]
              /\ db'[payload.uid].googleTaskId = nextTask
              /\ db'[payload.uid].completed = FALSE
              /\ db'[payload.uid].title = payload.title
              /\ last'.body.success
              /\ last'.body.message = "Task created successfully"
              /\ last'.body.taskId = nextTask]_vars

\* two create requests without a list name were served, for uids 1 and 2: the first
\* made the list "Reminders", the second reused it and made one task and one mapping
C12_Witness ==
  /\ last.req.method = "POST" /\ last.req.action = ""
  /\ last.req.body.uid = 2 /\ last.req.body.list = ""
  /\ last.status = 200 /\ last.body.message = "Task created successfully"
  /\ last.tasksMade = 1 /\ last.docsMade = 1 /\ last.listsMade = 0
  /\ lists = <<"My Tasks", "Reminders">>
  /\ DOMAIN db = {1, 2}
  /\ db[2].googleListId = 2 /\ db[2].googleTaskId = 2 /\ ~db[2].completed
  /\ tasks[2].list = 2 /\ tasks[2].status = "needsAction"

\* C13: pull of an unmapped item. When the pull phase imports a remote task that is
\* not deleted and that no mapping document references, and no call fails, it
\* creates exactly one reminder, with the task's title and with completed equal to
\* (the task's status = completed), and registers exactly the mapping document {the
\* new reminder's identifier, the task id, the task's list id, that same boolean};
\* the remote store is left as it was.
C13_PullUnmapped ==
  [][(/\ pc = "step2"
      /\ queue # << >>
      /\ Head(queue).googleTaskId \in DOMAIN tasks
      /\ ~tasks[Head(queue).googleTaskId].deleted
      /\ Head(queue).googleTaskId \notin MappedTaskIds
      /\ ImportTask(NoFault))
     => LET t == Head(queue).googleTaskId
            done == tasks[t].status = "completed"
        IN  /\ nextUid \notin DOMAIN reminders
            /\ DOMAIN reminders' = DOMAIN reminders \cup {nextUid}
            /\ \A u \in DOMAIN reminders : reminders'[u] = reminders[u]
            /\ reminders'[nextUid].title = tasks[t].title
            /\ reminders'[nextUid].completed = done
            /\ DOMAIN db' = DOMAIN db \cup {nextUid}
            /\ \A u \in DOMAIN db : db'[u] = db[u]
            /\ db'[nextUid].googleTaskId = t
            /\ db'[nextUid].googleListId = tasks[t].list
            /\ db'[nextUid].completed = done
            /\ tasks' = tasks /\ lists' = lists]_vars

\* the pull phase of a pass without a failing call has imported the completed remote
\* task 1: reminder 1 is completed and mapped to it, with completed stored as true
C13_Witness ==
  /\ pc = "step2"
  /\ ~hist.faulted
  /\ hist.created = {1}
  /\ tasks[1].status = "completed" /\ ~tasks[1].deleted
  /\ reminders[1].origin = 1
  /\ reminders[1].completed
  /\ reminders[1].title = tasks[1].title
  /\ db[1].googleTaskId = 1 /\ db[1].googleListId = tasks[1].list
  /\ db[1].completed

\* the remote task ids the mapping documents referenced at the start of the pass
MappedAtStart == {hist.db0[u].googleTaskId : u \in DOMAIN hist.db0}

\* the remote task t is to be pulled: it is not flagged deleted (and, unless untitled
\* tasks count too, it has a title)
ToPull(t, untitledToo) == ~tasks[t].deleted /\ (untitledToo \/ tasks[t].title # "")

\* a step of the pull phase is complete: the answer to the new-tasks request holds
\* every task to be pulled that no mapping document references, and when the phase
\* ends in a pass without a failing call, every such task has a reminder made from it
\* in this pass and a mapping document of that reminder
PullComplete(untitledToo) ==
  /\ (pc = "step1.5" /\ pc' = "step2" /\ last'.status = 200) =>
       \A t \in DOMAIN tasks :
         (ToPull(t, untitledToo) /\ t \notin MappedTaskIds) =>
           \E i \in DOMAIN last'.body.tasks : last'.body.tasks[i].googleTaskId = t
  /\ (pc = "step2" /\ pc' = "step3" /\ ~hist.faulted) =>
       \A t \in DOMAIN tasks :
         (ToPull(t, untitledToo) /\ t \notin MappedAtStart) =>
           \E u \in hist.created :
             /\ u \in DOMAIN reminders /\ reminders[u].origin = t
             /\ u \in DOMAIN db /\ db[u].googleTaskId = t

C15_DeletedNeverPulled ==
  [][/\ (pc = "step1.5" /\ pc' = "step2" /\ last'.status = 200) =>
          /\ \A i \in DOMAIN last'.body.tasks :
               /\ last'.body.tasks[i].googleTaskId \in DOMAIN tasks
               /\ ~tasks[last'.body.tasks[i].googleTaskId].deleted
          /\ \A t \in DOMAIN tasks :
               tasks[t].deleted => t \in Range(listTasksInList(tasks[t].list))
     /\ (pc = "step2" =>
           \A u \in DOMAIN reminders' \ DOMAIN reminders :
             /\ reminders'[u].origin \in DOMAIN tasks
             /\ ~tasks[reminders'[u].origin].deleted)]_vars

\* the new tasks were fetched while the titled, unmapped task 1 was flagged deleted:
\* the listing holds it, the enumeration holds the live task 2 only
C15_Witness ==
  /\ pc = "step2"
  /\ last.req.action = "new-tasks" /\ last.status = 200
  /\ DOMAIN tasks = {1, 2}
  /\ tasks[1].deleted /\ tasks[1].title # "" /\ 1 \notin MappedTaskIds
  /\ 1 \in Range(listTasksInList(tasks[1].list))
  /\ ~tasks[2].deleted
  /\ Len(last.body.tasks) = 1
  /\ last.body.tasks[1].googleTaskId = 2

\* the mapping document of uid and its remote task differ in completion
Diverged(uid) ==
  /\ getTaskFound(db[uid].googleListId, db[uid].googleTaskId)
  /\ (tasks[db[uid].googleTaskId].status = "completed") # db[uid].completed

\* C16: per-item failure isolation. In every phase a failing call for one item does
\* not keep the remaining items of the phase from being processed: a loop of main
\* that has items left takes the next one and stays in its phase, whatever failed;
\* when one write of the loop of (c) over the mapping documents fails, every other
\* document that differs from its remote task is still reported to the driver; and
\* when the listing of the first remote list fails in the loop of (b), the tasks to
\* be pulled of the other lists are still reported.
C16_FailureIsolation ==
  [][/\ (queue # << >> => pc' = pc /\ queue' = Tail(queue))
     /\ \A force \in BOOLEAN, reset \in BOOLEAN,
           f \in StatusFaults \ {NoFault, Fault("response")} :
          FetchGoogleStatusChanges(force, reset, f) =>
            Cardinality({uid \in DOMAIN db :
                           /\ Diverged(uid)
                           /\ \A i \in DOMAIN queue' : queue'[i].uid # uid}) <= 1
     /\ FetchNewTasks(Fault("tasks.list")) =>
          \A t \in DOMAIN tasks :
            (tasks[t].list # 1 /\ ToPull(t, FALSE) /\ t \notin MappedTaskIds) =>
              \E i \in DOMAIN queue' : queue'[i].googleTaskId = t]_vars


\* C17: retry after a per-item transient error. When the processing of an item
\* fails in a status phase, the item's mapping document is left as it was: a
\* google-status request that fails, or whose response is lost, changes no mapping
\* document; a change the driver could not apply to its reminder leaves the mapping
\* document as it was at the start of the pass; and a status update that fails, or
\* whose response is lost, changes no mapping document.
C17_FailureLeavesMapping ==
  [][/\ \A force \in BOOLEAN, reset \in BOOLEAN, f \in StatusFaults \ {NoFault} :
          FetchGoogleStatusChanges(force, reset, f) => db' = db
     /\ \A f \in LocalFaults :
          (/\ ApplyGoogleChange(f)
           /\ ~updateReminderStatus(Head(queue).uid, Head(queue).completed,
                                    f.call = "eventStore.save").ok)
          => db[Head(queue).uid] = hist.db0[Head(queue).uid]
     /\ \A f \in UpdateFaults \ {NoFault} :
          (/\ SyncStatusToGoogle(f)
           /\ calendarItem(Head(queue).icloudUid)
           /\ reminders[Head(queue).icloudUid].completed # Head(queue).completed)
          => db' = db]_vars


\* C18: mapping documents are never deleted. No request served by the handler
\* removes a document from the synced_items collection: the set of icloudUids that
\* have a document only grows.
C18_MappingsNeverDeleted == [][DOMAIN db \subseteq DOMAIN db']_vars

\* a google-status request has been served while the mapping document of uid 1
\* references a task that no longer exists remotely: the document is still there
C18_Witness ==
  /\ 1 \in DOMAIN db
  /\ db[1].googleTaskId \notin DOMAIN tasks
  /\ last.req.method = "GET"
  /\ last.req.action = "google-status"
  /\ last.status = 200


\* C19: uniqueness of remote references. With the passes run one after the other,
\* no two mapping documents hold the same googleTaskId, whatever pushes, forced
\* pushes, imports and registrations have been made.
C19_UniqueRemoteReferences ==
  \A u \in DOMAIN db, v \in DOMAIN db : u # v => db[u].googleTaskId # db[v].googleTaskId


\* a pushed reminder and an imported one both have their mapping document, and the
\* two documents reference different tasks
C19_Witness ==
  /\ pc = "done"
  /\ DOMAIN db = {1, 2}
  /\ DOMAIN reminders = {1, 2}
  /\ \E u \in {1, 2}, v \in {1, 2} :
       /\ reminders[u].origin = 0
       /\ reminders[v].origin # 0
       /\ db[v].googleTaskId = reminders[v].origin
       /\ db[u].googleTaskId # db[v].googleTaskId


\* the requests a client sends with SendRequest
SentRequests ==
  {<<"GET", "google-status">>, <<"GET", "synced">>, <<"POST", "status">>, <<"DELETE", "">>}

\* C20: unauthorized requests. With a secret configured, a request other than
\* OPTIONS that carries no token, or whose token is not the secret (the header is
\* the token when there is one, else the query parameter), is answered 401 with
\* {success: false, error: "Unauthorized"}; the handler makes no call for it (no
\* read or write of the collection, no load of the credentials, no remote call)
\* and the stores are left as they were.
C20_UnauthorizedRejected ==
  [][\A r \in SentRequests, header \in Tokens, query \in Tokens :
       (/\ WEBHOOK_SECRET # ""
        /\ SendRequest(r[1], r[2], header, query)
        /\ header # WEBHOOK_SECRET
        /\ (header = "" => query # WEBHOOK_SECRET))
       => /\ last'.status = 401
          /\ last'.body = [error |-> "Unauthorized", success |-> FALSE]
          /\ last'.ops = {}
          /\ UNCHANGED serverVars]_vars

\* a status update for a mapped reminder sent with a wrong header has been answered
\* 401, and the mapping document is as the create request left it
C20_Witness ==
  /\ 1 \in DOMAIN db
  /\ ~db[1].completed
  /\ last.req.method = "POST"
  /\ last.req.action = "status"
  /\ last.req.header = "wrong-secret"
  /\ last.req.query = WEBHOOK_SECRET
  /\ last.status = 401


\* C21 as stated: a request that carries the configured secret in the header or in
\* the query parameter is never answered 401, whatever the other one holds.
C21_TokenEitherLocation ==
  [][\A r \in SentRequests, header \in Tokens, query \in Tokens :
       (/\ SendRequest(r[1], r[2], header, query)
        /\ (header = WEBHOOK_SECRET \/ query = WEBHOOK_SECRET))
       => last'.status # 401]_vars

\* C21: token location. A request that carries the configured secret in the
\* x-webhook-secret header is never answered 401, whatever the query parameter
\* holds; a request that carries it in the secret query parameter is never answered
\* 401 when it has no x-webhook-secret header.
C21_TokenHeaderFirst ==
  [][\A r \in SentRequests, header \in Tokens, query \in Tokens :
       (/\ SendRequest(r[1], r[2], header, query)
        /\ (header = WEBHOOK_SECRET \/ (header = "" /\ query = WEBHOOK_SECRET)))
       => last'.status # 401]_vars

\* a request with the secret in the header and a wrong query parameter has been
\* served with 200
C21_Witness ==
  /\ last.req.method = "GET"
  /\ last.req.action = "synced"
  /\ last.req.header = WEBHOOK_SECRET
  /\ last.req.query = "wrong-secret"
  /\ last.status = 200


\* C22: validation before mutation. A create request whose payload has no title is
\* answered 400 with the message "Missing required field: title"; the handler makes
\* no call for it (no read or write of the collection, no remote call) and the
\* stores are left as they were.
C22_TitleValidatedFirst ==
  [][\A payload \in CreatePayloads, f \in CreateRequestFaults :
       (payload.title = "" /\ PostCreate(payload, f))
       => /\ last'.status = 400
          /\ last'.body.success = FALSE
          /\ last'.body.message = "Missing required field: title"
          /\ last'.ops = {}
          /\ UNCHANGED serverVars]_vars

\* a forced create request without a title for a uid that has a mapping document
\* has been answered 400
C22_Witness ==
  /\ 1 \in DOMAIN db
  /\ last.req.method = "POST"
  /\ last.req.action = ""
  /\ last.req.body.title = ""
  /\ last.req.body.uid = 1
  /\ last.req.body.force
  /\ last.status = 400


\* C23: status update for an unknown item. A status request for an icloudUid that
\* has no mapping document is answered 400 with success false and the message
\* "Synced item not found"; it makes no remote call and no write of the collection,
\* and the stores are left as they were.
C23_UnknownItemStatus ==
  [][\A uid \in ClientUids \ {NoUid}, completed \in BOOLEAN, f \in UpdateRequestFaults :
       (uid \notin DOMAIN db /\ PostUpdateStatus(uid, completed, f))
       => /\ last'.status = 400
          /\ last'.body.success = FALSE
          /\ last'.body.message = "Synced item not found"
          /\ last'.ops \cap (RemoteOps \cup StoreWrites) = {}
          /\ UNCHANGED serverVars]_vars

\* a status request for uid 2 has been answered 400 while uid 1 has a mapping
\* document and its task exists
C23_Witness ==
  /\ DOMAIN db = {1}
  /\ db[1].googleTaskId \in DOMAIN tasks
  /\ last.req.method = "POST"
  /\ last.req.action = "status"
  /\ last.req.body.icloudUid = 2
  /\ last.status = 400


\* the answer of the catch block: status 500 and a body with success false, the
\* error's message and a timestamp
CaughtAnswer(a) ==
  /\ a.status = 500
  /\ DOMAIN a.body = {"success", "error", "timestamp"}
  /\ a.body.success = FALSE
  /\ a.body.error # ""

\* the failing calls that throw into the handler (a failing tasks.get is caught
\* by the client, which then reports the task as missing)
Throwing(faults) == faults \ {NoFault, Fault("tasks.get")}

\* C24: top-level failure containment. Whenever a call throws while an
\* authenticated GET or POST request is served, the request is answered 500 with a
\* body made of success false, the error's message and a timestamp.
C24_FailureContained ==
  [][/\ \A payload \in CreatePayloads, f \in Throwing(CreateRequestFaults) :
          PostCreate(payload, f) => CaughtAnswer(last')
     /\ \A taskId \in DOMAIN tasks, uid \in ClientUids \ {NoUid}, completed \in BOOLEAN,
           f \in Throwing(RegisterRequestFaults) :
          PostRegister(taskId, uid, completed, f) => CaughtAnswer(last')
     /\ \A uid \in ClientUids \ {NoUid}, completed \in BOOLEAN,
           f \in Throwing(UpdateRequestFaults) :
          PostUpdateStatus(uid, completed, f) => CaughtAnswer(last')
     /\ \A action \in {"google-status", "new-tasks", "synced", ""},
           f \in Throwing(GetRequestFaults) :
          GetAction(action, f) => CaughtAnswer(last')
     /\ \A listName \in DebugLists :
          GetDebugList(listName, Fault("loadSecrets")) => CaughtAnswer(last')]_vars

\* a create request during which the write of the mapping document threw has been
\* answered 500 with the error's message
C24_Witness ==
  /\ last.req.method = "POST"
  /\ last.req.action = ""
  /\ "saveSyncedItem" \in last.ops
  /\ last.docsMade = 0
  /\ last.status = 500
  /\ last.body.error = "save failed"


\* C25: response shape. Every body the handler has answered with (the 204 of
\* OPTIONS has none) holds a boolean success, a message or an error, and a
\* timestamp.
C25_ResponseShape ==
  last.status \notin {0, 204} =>
    /\ "success" \in DOMAIN last.body
    /\ last.body.success \in BOOLEAN
    /\ ("message" \in DOMAIN last.body \/ "error" \in DOMAIN last.body)
    /\ "timestamp" \in DOMAIN last.body


\* the uids of the changes in a google-status body
ReportedUids(body) == {body.changes[i].uid : i \in DOMAIN body.changes}

\* C26: frame of the google-status operation. A google-status request that is
\* answered 200 reports, once each and with the remote completion, exactly the
\* mapping documents whose remote task is found and whose completed differs from the
\* task's completion, and writes that completion into exactly those documents; a
\* document whose completed equals the remote completion, or whose remote task is
\* not found, is neither reported nor written, and nothing but completed changes.
\* A request during which no call fails is answered 200, whatever tasks are missing.
C26_StatusFrame ==
  [][\A f \in GetRequestFaults :
       (GetAction("google-status", f) /\ (f = NoFault \/ last'.status = 200))
       => /\ last'.status = 200
          /\ ReportedUids(last'.body) = {uid \in DOMAIN db : Diverged(uid)}
          /\ Len(last'.body.changes) = Cardinality(ReportedUids(last'.body))
          /\ \A i \in DOMAIN last'.body.changes :
               LET c == last'.body.changes[i]
               IN  c.completed = (tasks[db[c.uid].googleTaskId].status = "completed")
          /\ DOMAIN db' = DOMAIN db
          /\ \A uid \in DOMAIN db :
               db'[uid] = IF Diverged(uid)
                          THEN [db[uid] EXCEPT !.completed = ~db[uid].completed]
                          ELSE db[uid]
          /\ UNCHANGED <<lists, tasks>>]_vars

\* a google-status request has reported the one mapping document of two whose
\* completed differed from its task's completion, and has written it
C26_Witness ==
  /\ DOMAIN db = {1, 2}
  /\ last.req.method = "GET"
  /\ last.req.action = "google-status"
  /\ last.status = 200
  /\ Len(last.body.changes) = 1
  /\ last.body.changes[1].uid = 2
  /\ ~last.body.changes[1].completed
  /\ ~db[2].completed
  /\ ~Diverged(1)


\* C27: a forced update leaves the completion alone. A create request with the
\* force flag for a uid whose mapped task still exists leaves the status of every
\* existing task as it was, whether or not a call of the request fails; when no
\* call fails it is answered "Task updated successfully", the task differs from
\* what it was in its title only, and no task is added.
C27_ForceKeepsCompletion ==
  [][\A payload \in CreatePayloads, f \in CreateRequestFaults :
       (/\ payload.force
        /\ payload.title # ""
        /\ payload.uid \in DOMAIN db
        /\ TaskAt(db[payload.uid].googleListId, db[payload.uid].googleTaskId)
        /\ PostCreate(payload, f))
       => /\ \A t \in DOMAIN tasks : t \in DOMAIN tasks' /\ tasks'[t].status = tasks[t].status
          /\ (f = NoFault =>
                /\ last'.status = 200
                /\ last'.body.message = "Task updated successfully"
                /\ last'.body.taskId = db[payload.uid].googleTaskId
                /\ tasks' = [tasks EXCEPT ![db[payload.uid].googleTaskId].title
                                            = payload.title])]_vars

\* a forced create request has updated a task that the Google user had completed,
\* and the task is still completed
C27_Witness ==
  /\ last.req.method = "POST"
  /\ last.req.action = ""
  /\ last.req.body.force
  /\ last.status = 200
  /\ last.body.message = "Task updated successfully"
  /\ tasks[last.body.taskId].status = "completed"


\* C28: synthesized identity. A create request that carries a title and no uid is
\* served under a generated identifier that no mapping document has: it is never
\* answered "Already synced" or "Task updated successfully", even with the force
\* flag set, and when no call fails it is answered 200 "Task created successfully",
\* has inserted one task and has written one new mapping document, under the
\* generated identifier, that references the new task.
C28_SynthesizedIdentity ==
  [][\A payload \in CreatePayloads, f \in CreateRequestFaults :
       (payload.uid = NoUid /\ payload.title # "" /\ PostCreate(payload, f))
       => /\ randomUUID \notin DOMAIN db
          /\ randomUUID \notin ClientUids
          /\ last'.status = 200 =>
               last'.body.message \notin {"Already synced", "Task updated successfully"}
          /\ f = NoFault =>
               /\ last'.status = 200
               /\ last'.body.message = "Task created successfully"
               /\ last'.tasksMade = 1
               /\ last'.body.taskId \notin DOMAIN tasks
               /\ DOMAIN db' = DOMAIN db \cup {randomUUID}
               /\ db'[randomUUID].googleTaskId = last'.body.taskId
               /\ \A uid \in DOMAIN db : db'[uid] = db[uid]]_vars

\* a forced create request without uid, sent when uid 1 had a mapping document, has
\* written a mapping document of its own and inserted a second task
C28_Witness ==
  /\ last.req.method = "POST"
  /\ last.req.action = ""
  /\ last.req.body.uid = NoUid
  /\ last.req.body.force
  /\ last.status = 200
  /\ 1 \in DOMAIN db
  /\ Cardinality(DOMAIN db \ ClientUids) = 1
  /\ Cardinality(DOMAIN tasks) = 2


\* what a request during which loadSecrets threw leaves behind: a 500 answer, no
\* remote call and no write of the collection, the stores as they were, and no
\* cached secrets
LoadFailureContained ==
  /\ last'.status = 500
  /\ last'.body.success = FALSE
  /\ "loadSecrets" \in last'.ops
  /\ last'.ops \cap (RemoteOps \cup StoreWrites) = {}
  /\ UNCHANGED <<db, lists, tasks, nextTask>>
  /\ ~cachedSecrets'

\* C29: configuration errors are fatal without partial work. A request during which
\* the load of the credentials fails makes no remote call and no write of the
\* collection and is answered with a failure; nothing is cached by the failed load,
\* so that the next request that needs the credentials loads them again: when its
\* load succeeds the secrets are cached from then on.
C29_LoadFailureNoPartialWork ==
  [][/\ \A payload \in CreatePayloads :
          PostCreate(payload, Fault("loadSecrets")) => LoadFailureContained
     /\ \A uid \in ClientUids \ {NoUid}, completed \in BOOLEAN :
          PostUpdateStatus(uid, completed, Fault("loadSecrets")) => LoadFailureContained
     /\ \A action \in {"google-status", "new-tasks", "synced", ""} :
          GetAction(action, Fault("loadSecrets")) => LoadFailureContained
     /\ \A listName \in DebugLists :
          GetDebugList(listName, Fault("loadSecrets")) => LoadFailureContained
     /\ (~cachedSecrets /\ last' # last /\ last'.status # 500 /\ "loadSecrets" \in last'.ops)
          => cachedSecrets']_vars

\* on a new instance, a forced create request for a uid that has a mapping document
\* has failed at the load of the credentials
C29_Witness ==
  /\ 1 \in DOMAIN db
  /\ ~cachedSecrets
  /\ last.req.method = "POST"
  /\ last.req.action = ""
  /\ last.req.body.force
  /\ last.req.body.uid = 1
  /\ last.status = 500
  /\ last.ops = {"getSyncedItem", "loadSecrets"}


\* the document a register request puts
RegisteredDoc(taskId, completed) ==
  [title |-> tasks[taskId].title, completed |-> completed, googleTaskId |-> taskId,
   googleListId |-> tasks[taskId].list]

\* C30: the put of the mapping store is an upsert keyed by icloudUid. A register
\* request that is served without a failing call leaves exactly one document for
\* its icloudUid, holding the fields of the request whether or not the icloudUid had
\* a document before, and leaves every other document as it was; and a synced
\* request that follows lists every icloudUid once, with the fields last written.
C30_PutIsUpsert ==
  [][/\ \A taskId \in DOMAIN tasks, uid \in ClientUids \ {NoUid}, completed \in BOOLEAN :
          PostRegister(taskId, uid, completed, NoFault) =>
            /\ DOMAIN db' = DOMAIN db \cup {uid}
            /\ db'[uid] = RegisteredDoc(taskId, completed)
            /\ \A v \in DOMAIN db \ {uid} : db'[v] = db[v]
     /\ GetAction("synced", NoFault) =>
          /\ Len(last'.body.items) = Cardinality(DOMAIN db)
          /\ \A uid \in DOMAIN db :
               \E i \in DOMAIN last'.body.items :
                 LET item == last'.body.items[i]
                 IN  /\ item.icloudUid = uid
                     /\ item.title = db[uid].title
                     /\ item.completed = db[uid].completed
                     /\ item.googleTaskId = db[uid].googleTaskId
                     /\ item.googleListId = db[uid].googleListId]_vars

\* a register request has overwritten the document of uid 1, which now references
\* the second task; no document was added
C30_Witness ==
  /\ last.req.method = "POST"
  /\ last.req.action = "register"
  /\ last.req.body.icloudUid = 1
  /\ last.status = 200
  /\ last.docsMade = 0
  /\ DOMAIN db = {1}
  /\ db[1].googleTaskId = 2


\* C31: find-or-create of a list is repeatable. A debug request for the list named
\* listName that no call fails uses the existing list whose title is exactly
\* listName (a title that differs in case is another list) and creates nothing, and
\* creates one list of that title only when there is none; so no two lists created
\* by sequential calls ever share a title, and repeated calls answer the same id.
C31_FindOrCreateRepeatable ==
  [][/\ \A listName \in DebugLists :
          GetDebugList(listName, NoFault)
            => LET existing == {l \in DOMAIN lists : lists[l] = listName}
               IN  /\ last'.status = 200
                   /\ IF existing # {}
                      THEN /\ lists' = lists
                           /\ last'.body.listId \in existing
                           /\ last'.listsMade = 0
                      ELSE /\ lists' = Append(lists, listName)
                           /\ last'.body.listId = Len(lists) + 1
                           /\ last'.listsMade = 1
     /\ \A i, j \in DOMAIN lists' : lists'[i] = lists'[j] => i = j]_vars

C31_Witness ==
  /\ last.req.debug = "list" /\ last.req.listName = "work"
  /\ last.status = 200 /\ last.listsMade = 0
  /\ lists = <<"My Tasks", "Work", "work">>
  /\ last.body.listId = 3


\* C32: reset is safe. In a pass run with --reset and without --force, the reset
\* empties the driver's state and its file and touches neither store; every
\* incomplete reminder that has a mapping document and was not imported by this pass
\* is then submitted, and its request, when no call fails, is answered 200 "Already
\* synced"; whether or not a call fails, the request creates no remote task and no
\* list and leaves every mapping document as it was.
C32_ResetIsSafe ==
  [][/\ (resetSync /\ FetchReminders)
          => /\ state' = {} /\ syncStateFile' = {}
             /\ UNCHANGED <<serverVars, localVars>>
     /\ \A f \in CreateFaults :
          (/\ pc = "step3" /\ resetSync /\ ~forceSync
           /\ queue # << >>
           /\ Head(queue) \in DOMAIN db
           /\ PushReminder(f))
            => /\ db' = db /\ tasks' = tasks /\ lists' = lists /\ nextTask' = nextTask
               /\ state' = state
               /\ (f = NoFault /\ Head(queue) \notin importedUIDs)
                    => /\ last'.req.body.uid = Head(queue)
                       /\ last'.status = 200
                       /\ last'.body.message = "Already synced"
                       /\ last'.tasksMade = 0 /\ last'.docsMade = 0]_vars

\* in a second pass, run with --reset only, reminder 1, pushed and recorded by the
\* first pass, has been submitted again and answered "Already synced"
C32_Witness ==
  /\ pc = "step3" /\ resetSync /\ ~forceSync
  /\ pass = 2
  /\ syncStateFile = {} /\ state = {}
  /\ 1 \in hist.submitted /\ 1 \in DOMAIN db /\ 1 \notin importedUIDs
  /\ last.req.method = "POST" /\ last.req.action = "" /\ last.req.body.uid = 1
  /\ last.status = 200 /\ last.body.message = "Already synced"


\* the google-status request of this pass recorded a completion change of the remote
\* task of uid in its mapping document: the document's completed is no longer what
\* it was when the pass began (nothing else writes it before step 1.5 reaches uid)
RecordedRemoteChange(uid) ==
  /\ uid \in DOMAIN hist.db0
  /\ uid \in DOMAIN db
  /\ db[uid].completed # hist.db0[uid].completed

\* C33: a remote completion change is not undone by the same pass. When the
\* google-status request of a pass has recorded a remote completion change in the
\* mapping document of a uid, the status loop of step 1.5 of that pass sends no
\* status request for that uid and leaves the remote task and the document as they
\* are, also when saving the reminder failed or the google-status response was lost.
C33_RemoteChangeNotUndone ==
  [][\A f \in UpdateFaults :
       (/\ pc = "step1.5"
        /\ queue # << >>
        /\ RecordedRemoteChange(Head(queue).icloudUid)
        /\ SyncStatusToGoogle(f))
         => /\ last' = last
            /\ tasks' = tasks
            /\ db' = db]_vars


\* the reminder, the remote task and the mapping document of uid agree on completion
Converged(uid) ==
  /\ reminders[uid].completed = db[uid].completed
  /\ (tasks[db[uid].googleTaskId].status = "completed") = db[uid].completed

\* C34: convergence after a clean pass. When main has run a whole pass in which no
\* call failed (the users act between passes only), every mapping document whose
\* reminder and whose remote task both exist holds the completion both of them have.
C34_CleanPassConverges ==
  (pc = "done" /\ ~hist.faulted)
    => \A uid \in DOMAIN db : (calendarItem(uid) /\ HasRemote(uid)) => Converged(uid)


\* a second pass without a failing call has ended: the user of Google Tasks had
\* completed task 1 of reminder 1, and the reminder, the task and the mapping
\* document are now all completed
C34_Witness ==
  /\ pc = "done" /\ ~hist.faulted /\ pass = 2
  /\ calendarItem(1) /\ HasRemote(1)
  /\ 1 \in DOMAIN hist.db0 /\ 1 \in DOMAIN hist.rem0
  /\ db[1].googleTaskId \in DOMAIN hist.tasks0
  /\ ~hist.db0[1].completed /\ ~hist.rem0[1].completed
  /\ hist.tasks0[db[1].googleTaskId].status = "completed"
  /\ db[1].completed /\ reminders[1].completed
  /\ tasks[db[1].googleTaskId].status = "completed"


\* C35: push is all-or-nothing. A create request, whatever call of it fails, leaves
\* either a new remote task together with a mapping document that references it, or
\* neither: no task it created is left without a mapping document (a later new-tasks
\* request would report such a task as new), and no mapping document it wrote
\* references a task that is not there.
C35_PushAllOrNothing ==
  [][\A payload \in CreatePayloads, f \in CreateRequestFaults :
       PostCreate(payload, f)
         => /\ \A t \in DOMAIN tasks' \ DOMAIN tasks :
                 \E uid \in DOMAIN db' : db'[uid].googleTaskId = t
            /\ \A uid \in DOMAIN db' \ DOMAIN db :
                 db'[uid].googleTaskId \in DOMAIN tasks']_vars


\* C36: the mapping points at the real location. Every mapping document a create
\* request writes, when no call fails, names the list its remote task is in; so
\* after a forced request that updated the mapped task in its mapped list, the
\* document still names that list, also when the request's list name resolves to
\* another list.
C36_MappingNamesTaskList ==
  [][\A payload \in CreatePayloads :
       PostCreate(payload, NoFault)
         => \A uid \in DOMAIN db' :
              (uid \notin DOMAIN db \/ db'[uid] # db[uid])
                => /\ db'[uid].googleTaskId \in DOMAIN tasks'
                   /\ tasks'[db'[uid].googleTaskId].list = db'[uid].googleListId]_vars


\* C37: concurrent pushes of one item. When the create requests being handled, all
\* for uid 1 and none of them forced, interleave at the awaits of
\* createTaskFromWebhook, at most one remote task is created for that uid.
C37_OneTaskPerUid ==
  (\A h \in Handlers : ~inflight[h].payload.force) => Cardinality(DOMAIN tasks) <= 1


\* C38: the local cache is a subset of the mapping collection. Every uid in the
\* driver's state, and every uid in its state file, has a mapping document, whatever
\* calls failed; so a reminder the push phase skips because of the state has a
\* mapping document.
C38_StateWithinMappings ==
  /\ state \subseteq DOMAIN db
  /\ syncStateFile \subseteq DOMAIN db

\* a second pass has ended in which reminder 1, recorded in the state file by the
\* first pass and still incomplete, was skipped; it has a mapping document
C38_Witness ==
  /\ pc = "done" /\ pass = 2 /\ ~forceSync /\ ~resetSync
  /\ syncStateFile = {1}
  /\ 1 \in DOMAIN db
  /\ 1 \in DOMAIN reminders /\ ~reminders[1].completed
  /\ 1 \notin hist.submitted


\* C39: no secret, no authentication. A handler deployed without a shared secret
\* answers no request 401, and answers every request, whatever token its header and
\* its query carry or omit, as it answers the same request without any token: a GET
\* of an action 200, OPTIONS 204, a method other than GET, POST and OPTIONS 405.
C39_NoSecretNoCheck ==
  [][/\ (envSecret = "" /\ last' # last) => last'.status # 401
     /\ \A header \in Tokens, query \in Tokens :
          \A call \in {<<"GET", "google-status">>, <<"GET", "synced">>, <<"POST", "status">>,
                       <<"OPTIONS", "">>, <<"DELETE", "">>} :
            (envSecret = "" /\ SendRequest(call[1], call[2], header, query))
              => LET bare == handleRequest([last'.req EXCEPT !.header = "", !.query = ""],
                                           NoFault)
                 IN  /\ last'.status = bare.status
                     /\ last'.body = bare.body
                     /\ call[1] = "GET" => last'.status = 200 /\ last'.body.success
                     /\ call[1] = "OPTIONS" => last'.status = 204
                     /\ call[1] = "DELETE" => last'.status = 405]_vars

\* a function deployed without a secret has created a task for a request and has
\* then answered a synced request that carried a wrong token in its header with
\* the mapping document
C39_Witness ==
  /\ envSecret = ""
  /\ last.req.method = "GET" /\ last.req.action = "synced"
  /\ last.req.header = "wrong-secret" /\ last.req.query = ""
  /\ last.status = 200
  /\ last.body.items # << >>

=============================================================================
